---- MODULE Spec2Model ----
(***************************************************************************)
(* A model of grimoire's package slot and metadata engine                  *)
(* (src-tauri/src/mods.rs, commands.rs, mod_metadata.rs).                  *)
(*                                                                         *)
(* File names are strings, read and built character by character as the    *)
(* Rust code does.  A directory is a function from the names of its        *)
(* entries to [isFile, data]; data stands for a file's content, size and   *)
(* modification time.  The side-table is a function from file names to     *)
(* metadata entries.                                                       *)
(***************************************************************************)
EXTENDS Integers, Sequences, FiniteSets, TLC

\* ------------------------------------------------------------------------
\* Characters and strings
\* ------------------------------------------------------------------------

DigitChars == "0123456789"
UpperChars == "ABCDEFGHIJKLMNOPQRSTUVWXYZ"
LowerChars == "abcdefghijklmnopqrstuvwxyz"

\* the i-th character of s, as a string of length one
CharAt(s, i) == SubSeq(s, i, i)

DigitTable == [c \in {CharAt(DigitChars, i) : i \in 1..10} |->
                  (CHOOSE i \in 1..10 : CharAt(DigitChars, i) = c) - 1]

LowerTable == [c \in {CharAt(UpperChars, i) : i \in 1..26} |->
                  CharAt(LowerChars, CHOOSE i \in 1..26 : CharAt(UpperChars, i) = c)]

UpperTable == [c \in {CharAt(LowerChars, i) : i \in 1..26} |->
                  CharAt(UpperChars, CHOOSE i \in 1..26 : CharAt(LowerChars, i) = c)]

\* char::is_ascii_digit
IsAsciiDigit(c) == c \in DOMAIN DigitTable

\* the value of a decimal digit character
DigitVal(c) == DigitTable[c]

\* the character of a decimal digit
DigitChar(d) == CharAt(DigitChars, d + 1)

\* char lowercase / uppercase (ASCII letters; every other character is kept)
LowerChar(c) == IF c \in DOMAIN LowerTable THEN LowerTable[c] ELSE c

UpperChar(c) == IF c \in DOMAIN UpperTable THEN UpperTable[c] ELSE c

\* str::to_lowercase
RECURSIVE ToLowercase(_)
ToLowercase(s) == IF s = "" THEN "" ELSE LowerChar(CharAt(s, 1)) \o ToLowercase(Tail(s))

\* str::starts_with / ends_with / contains
StartsWith(s, p) == Len(p) <= Len(s) /\ SubSeq(s, 1, Len(p)) = p

EndsWith(s, p) == Len(p) <= Len(s) /\ SubSeq(s, Len(s) - Len(p) + 1, Len(s)) = p

Contains(s, p) == \E i \in 1..(Len(s) - Len(p) + 1) : SubSeq(s, i, i + Len(p) - 1) = p

\* str::rfind: the 0-based index of the last occurrence of p in s, or -1
RFind(s, p) ==
    LET hits == {i \in 1..(Len(s) - Len(p) + 1) : SubSeq(s, i, i + Len(p) - 1) = p}
    IN  IF hits = {} THEN -1
        ELSE (CHOOSE i \in hits : \A j \in hits : j <= i) - 1

\* str::trim_end_matches: strips the suffix p repeatedly
RECURSIVE TrimEndMatches(_, _)
TrimEndMatches(s, p) ==
    IF Len(p) > 0 /\ EndsWith(s, p)
    THEN TrimEndMatches(SubSeq(s, 1, Len(s) - Len(p)), p)
    ELSE s

\* the decimal digits of n, most significant first
RECURSIVE Decimal(_)
Decimal(n) == IF n < 10 THEN DigitChar(n) ELSE Decimal(n \div 10) \o DigitChar(n % 10)

\* format!("{}", n) in place of format!("{:02}", n): no zero padding
FormatUnpadded(n) == Decimal(n)

\* format!("{:02}", n): decimal, zero-padded to a width of at least two
Fmt02(n) == IF n < 10 THEN "0" \o Decimal(n) ELSE Decimal(n)

\* str::parse::<u32>: an optional '+' and then one or more digits, nothing
\* else (None is -1); the strings parsed here have two characters
RECURSIVE DigitsValue(_)
DigitsValue(s) ==
    IF s = "" THEN 0
    ELSE 10 * DigitsValue(SubSeq(s, 1, Len(s) - 1)) + DigitVal(CharAt(s, Len(s)))

ParseU32(s) ==
    LET body == IF StartsWith(s, "+") THEN Tail(s) ELSE s
    IN  IF Len(body) > 0 /\ \A i \in 1..Len(body) : IsAsciiDigit(CharAt(body, i))
        THEN DigitsValue(body)
        ELSE -1

\* ------------------------------------------------------------------------
\* File names: parsing and formatting
\* ------------------------------------------------------------------------

NoneV == -1

\* a panic of the running thread, where a function returns no value at all
PanicV == -2

\* char::len_utf8: the bytes a character takes in a str (the characters of the
\* model outside ASCII take two)
WideChars == {"é"}

Utf8Len(c) == IF c \in WideChars THEN 2 ELSE 1

\* str::len: the length of a str in bytes
RECURSIVE ByteLen(_)
ByteLen(s) == IF s = "" THEN 0 ELSE Utf8Len(CharAt(s, 1)) + ByteLen(Tail(s))

\* the number of characters of s that lie before byte offset index, when
\* index is a character boundary of s
CharsBefore(s, index) == {k \in 0..Len(s) : ByteLen(SubSeq(s, 1, k)) = index}

\* str::is_char_boundary
IsCharBoundary(s, index) == CharsBefore(s, index) # {}

\* &s[begin..end]: the characters between two byte offsets; the index
\* operation panics unless both are character boundaries
ByteSlice(s, begin, end) ==
    LET first == CHOOSE k \in CharsBefore(s, begin) : TRUE
        last_ == CHOOSE k \in CharsBefore(s, end) : TRUE
    IN  SubSeq(s, first + 1, last_)

\* mods.rs parse_vpk_priority: the scanner's priority parser (None is -1, a
\* panic of the slice is -2)
ParseVpkPriority(filename) ==
    IF ~StartsWith(filename, "pak") \/ ~EndsWith(filename, "_dir.vpk")
    THEN NoneV
    ELSE IF ~IsCharBoundary(filename, 3) \/ ~IsCharBoundary(filename, 5)
    THEN PanicV
    ELSE ParseU32(ByteSlice(filename, 3, 5))

\* commands.rs parse_pak_number: the allocator's pak-number parser (None is -1)
ParsePakNumber(file_name) ==
    LET lower  == ToLowercase(file_name)
        index  == RFind(lower, "pak")
        start  == index + 3
        digits == SubSeq(lower, start + 1, IF start + 2 <= Len(lower) THEN start + 2 ELSE Len(lower))
    IN  IF ~EndsWith(lower, "_dir.vpk") THEN NoneV
        ELSE IF index >= 0 /\ Len(digits) = 2 /\ \A i \in 1..2 : IsAsciiDigit(CharAt(digits, i))
             THEN ParseU32(digits)
             ELSE NoneV

\* format!("pak{:02}_dir.vpk", n), as set_mod_priority, apply_mina_variant and
\* cleanup_addons build the canonical file name
PakFileName(n) == "pak" \o Fmt02(n) \o "_dir.vpk"

\* u32::min
Min(a, b) == IF a <= b THEN a ELSE b

\* commands.rs is_pak_file
IsPakFile(file_name) ==
    LET lower == ToLowercase(file_name)
    IN  StartsWith(lower, "pak") /\ EndsWith(lower, "_dir.vpk") /\ ParsePakNumber(lower) # NoneV

\* commands.rs is_mina_texture
IsMinaTexture(file_name) ==
    LET lower == ToLowercase(file_name)
    IN  IF ~EndsWith(lower, ".vpk") THEN FALSE
        ELSE IF ~Contains(lower, "textures") THEN FALSE
        ELSE Contains(lower, "mina") \/ Contains(lower, "midnight")
             \/ lower = "textures-pak21_dir.vpk"

\* The marker in front of a variant's display name ("Midnight Mina" and an em
\* dash in the source; the dash is written in ASCII here).
MinaMarker == "Midnight Mina --"

\* meta.name.starts_with(marker) for the entry of file_name, false when the
\* map has no entry
IsMetadataMina(file_name, metadata_map) ==
    /\ file_name \in DOMAIN metadata_map
    /\ StartsWith(metadata_map[file_name].name, MinaMarker)

\* mods.rs extract_mod_name: the display name derived from the file name
RECURSIVE ReplaceSeparators(_)
ReplaceSeparators(s) ==
    IF s = "" THEN ""
    ELSE (IF CharAt(s, 1) \in {"_", "-"} THEN " " ELSE CharAt(s, 1)) \o ReplaceSeparators(Tail(s))

\* str::split_whitespace, then the first character of each word in upper
\* case, then join(" ")
RECURSIVE TitleWords(_, _, _)
TitleWords(s, cur, acc) ==
    LET flushed == IF cur = "" THEN acc
                   ELSE (IF acc = "" THEN "" ELSE acc \o " ")
                        \o UpperChar(CharAt(cur, 1)) \o Tail(cur)
    IN  IF s = "" THEN flushed
        ELSE IF CharAt(s, 1) = " " THEN TitleWords(Tail(s), "", flushed)
        ELSE TitleWords(Tail(s), cur \o CharAt(s, 1), acc)

ExtractModName(filename) ==
    LET name1 == TrimEndMatches(TrimEndMatches(filename, "_dir.vpk"), ".vpk")
        rest  == SubSeq(name1, 6, Len(name1))
        name2 == IF StartsWith(name1, "pak") /\ Len(name1) > 5
                 THEN (IF StartsWith(rest, "_") THEN Tail(rest) ELSE rest)
                 ELSE name1
    IN  TitleWords(ReplaceSeparators(name2), "", "")

\* mods.rs generate_mod_id: a hash of the path string; distinct paths get
\* distinct identities
GenerateModId(path) == "id:" \o path[1] \o "/" \o path[2]

\* ------------------------------------------------------------------------
\* The file names of the model
\* ------------------------------------------------------------------------

SIBLING_21 == "pak21_000.vpk"
README == "readme.txt"
SUB_VPK == "sub.vpk"
OLD_ZIP == "old.Zip"
PRESET_A == "clothing_preset_a.vpk"
PRESET_B == "sts_midnight_mina_b.vpk"
MINA_TEXTURES == "mina_textures.vpk"
RED_VPK == "red.vpk"
TEXTURES_PAK21 == "textures-pak21_dir.vpk"
X_1 == "x_1_dir.vpk"
X_1_PART == "x_1_000.vpk"
X_10 == "x_10_dir.vpk"

\* Every file name the model handles: the names the runs start with, the
\* archive entry of a variant and the canonical name of every slot.
Names ==
    {SIBLING_21, README, SUB_VPK, OLD_ZIP, PRESET_A, PRESET_B, MINA_TEXTURES, RED_VPK,
     TEXTURES_PAK21, X_1, X_1_PART, X_10}
    \cup {PakFileName(n) : n \in 0..99}

\* The functions of a file name above, tabulated over Names (each entry is the
\* value the function computes; the operations below look the values up).
Lowercase == [n \in Names |-> ToLowercase(n)]
VpkPriority == [n \in Names |-> ParseVpkPriority(n)]
PakNumber == [n \in Names |-> ParsePakNumber(n)]
ModName == [n \in Names |-> ExtractModName(n)]
PakFile == [n \in Names |-> IsPakFile(n)]
MinaTexture == [n \in Names |-> IsMinaTexture(n)]

\* commands.rs is_mina_preset
IsMinaPreset(file_name, metadata_map) ==
    LET lower == Lowercase[file_name]
    IN  /\ \/ StartsWith(lower, "clothing_preset_")
           \/ StartsWith(lower, "sts_midnight_mina_")
           \/ IsMetadataMina(file_name, metadata_map)
        /\ EndsWith(lower, ".vpk")
        /\ ~MinaTexture[file_name]

\* commands.rs collect_mina_files: "preset", "texture" or "none".  The preset
\* test comes first and does not exclude texture names.
CollectMinaKind(file_name, metadata_map) ==
    LET lower == Lowercase[file_name]
    IN  IF /\ \/ StartsWith(lower, "clothing_preset_")
              \/ StartsWith(lower, "sts_midnight_mina_")
              \/ IsMetadataMina(file_name, metadata_map)
           /\ EndsWith(lower, ".vpk")
        THEN "preset"
        ELSE IF /\ Contains(lower, "textures")
                /\ EndsWith(lower, ".vpk")
                /\ \/ Contains(lower, "mina")
                   \/ Contains(lower, "midnight")
                   \/ lower = "textures-pak21_dir.vpk"
             THEN "texture"
             ELSE "none"

\* ------------------------------------------------------------------------
\* The file system and the persisted side-table
\* ------------------------------------------------------------------------

\* A world is [a |-> the addons directory, d |-> the .disabled directory,
\* m |-> the persisted side-table].  deadlock.rs get_addons_path and
\* get_disabled_path create the directories, so both always exist.
\* .disabled lies inside addons; as a directory entry of addons it is skipped
\* by every loop (is_file, and its name ends with no .vpk), so W.a leaves it out.
ADDONS == "addons"
DISABLED == "disabled"

DirOf(W, dir) == IF dir = ADDONS THEN W.a ELSE W.d

WithDir(W, dir, entries) == IF dir = ADDONS THEN [W EXCEPT !.a = entries] ELSE [W EXCEPT !.d = entries]

MapRemove(f, k) == [x \in DOMAIN f \ {k} |-> f[x]]

MapPut(f, k, v) == [x \in DOMAIN f \cup {k} |-> IF x = k THEN v ELSE f[x]]

\* Path::exists
PathExists(W, path) == path[2] \in DOMAIN DirOf(W, path[1])

\* Path::is_file
PathIsFile(W, path) == PathExists(W, path) /\ DirOf(W, path[1])[path[2]].isFile

\* std::fs::remove_file: fails on a missing path and on a directory
FsRemoveFile(W, path) ==
    IF PathIsFile(W, path)
    THEN [ok |-> TRUE, w |-> WithDir(W, path[1], MapRemove(DirOf(W, path[1]), path[2]))]
    ELSE [ok |-> FALSE, w |-> W]

\* std::fs::remove_file where the removal of the file named denied is refused
\* by the file system (permission denied, the file is in use)
FsRemoveFileIo(W, denied, path) ==
    IF path[2] = denied THEN [ok |-> FALSE, w |-> W] ELSE FsRemoveFile(W, path)

\* std::fs::rename of a file: replaces a file at the destination, fails when
\* the source is missing or the destination is a directory
FsRename(W, from, to) ==
    IF ~PathIsFile(W, from) THEN [ok |-> FALSE, w |-> W]
    ELSE IF from = to THEN [ok |-> TRUE, w |-> W]
    ELSE IF PathExists(W, to) /\ ~PathIsFile(W, to) THEN [ok |-> FALSE, w |-> W]
    ELSE LET entry == DirOf(W, from[1])[from[2]]
             W1    == WithDir(W, from[1], MapRemove(DirOf(W, from[1]), from[2]))
         IN  [ok |-> TRUE, w |-> WithDir(W1, to[1], MapPut(DirOf(W1, to[1]), to[2], entry))]

\* How the renames of one command fail: "none", "xdev" (rename returns the
\* cross-device error, raw_os_error 18) or the name of a file that the
\* operating system refuses to move (any other error).
RenameError(io, from) ==
    IF io = "xdev" THEN "xdev" ELSE IF io = from[2] THEN "denied" ELSE "none"

\* std::fs::rename under the errors of io, as used with "?": any error ends
\* the caller
FsRenameIo(W, io, from, to) ==
    IF RenameError(io, from) # "none" THEN [ok |-> FALSE, w |-> W] ELSE FsRename(W, from, to)

\* std::fs::copy: the content of from is written to to, replacing a file there
FsCopy(W, from, to) ==
    IF ~PathIsFile(W, from) THEN [ok |-> FALSE, w |-> W]
    ELSE IF PathExists(W, to) /\ ~PathIsFile(W, to) THEN [ok |-> FALSE, w |-> W]
    ELSE [ok |-> TRUE, w |-> WithDir(W, to[1], MapPut(DirOf(W, to[1]), to[2], DirOf(W, from[1])[from[2]]))]

\* fs::copy(source, dest)?; fs::remove_file(source)?
CopyThenRemove(W, from, to) ==
    IF ~FsCopy(W, from, to).ok THEN [ok |-> FALSE, w |-> W]
    ELSE IF from = to THEN [ok |-> TRUE, w |-> W]
    ELSE FsRemoveFile(FsCopy(W, from, to).w, from)

\* How the side-table file fails during one command: "none", "load" (reading
\* or parsing it fails) or "save" (writing it fails).
\* mod_metadata.rs load_metadata
LoadMetadata(W, fault) == IF fault = "load" THEN [ok |-> FALSE, map |-> <<>>] ELSE [ok |-> TRUE, map |-> W.m]

\* mod_metadata.rs save_metadata: whole-file replace
SaveMetadata(W, fault, map) == IF fault = "save" THEN [ok |-> FALSE, w |-> W] ELSE [ok |-> TRUE, w |-> [W EXCEPT !.m = map]]

\* insert-then-remove in place of remove-then-insert: the entry is stored
\* under the new key first and the old key removed afterwards
RenameKeyInsertFirst(map, from, to) ==
    IF from \in DOMAIN map THEN MapRemove(MapPut(map, to, map[from]), from) ELSE map

\* HashMap remove-then-insert of rename_metadata_key and rename_metadata_key_inline
RenameKeyInMap(map, from, to) ==
    IF from \in DOMAIN map THEN MapPut(MapRemove(map, from), to, map[from]) ELSE map

\* commands.rs rename_metadata_key_inline
RenameMetadataKeyInline(map, from, to) == RenameKeyInMap(map, from, to)

\* mod_metadata.rs rename_metadata_key: load, move the entry, save
RenameMetadataKey(W, fault, from, to) ==
    LET l == LoadMetadata(W, fault)
    IN  IF ~l.ok THEN [ok |-> FALSE, w |-> W]
        ELSE IF from \in DOMAIN l.map
             THEN SaveMetadata(W, fault, RenameKeyInMap(l.map, from, to))
             ELSE [ok |-> TRUE, w |-> W]

\* mod_metadata.rs remove_metadata_entry
RemoveMetadataEntry(W, fault, file_name) ==
    LET l == LoadMetadata(W, fault)
    IN  IF ~l.ok THEN [ok |-> FALSE, w |-> W]
        ELSE IF file_name \in DOMAIN l.map
             THEN SaveMetadata(W, fault, MapRemove(l.map, file_name))
             ELSE [ok |-> TRUE, w |-> W]

\* upsert_metadata_for_files starting from an empty map in place of the
\* loaded one
UpsertReplacingAll(W, fault, files, metadata) ==
    LET l == LoadMetadata(W, fault)
    IN  IF ~l.ok THEN [ok |-> FALSE, w |-> W]
        ELSE SaveMetadata(W, fault, [x \in files |-> metadata])

\* mod_metadata.rs upsert_metadata_for_files
UpsertMetadataForFiles(W, fault, files, metadata) ==
    LET l == LoadMetadata(W, fault)
    IN  IF ~l.ok THEN [ok |-> FALSE, w |-> W]
        ELSE SaveMetadata(W, fault,
                 [x \in DOMAIN l.map \cup files |-> IF x \in files THEN metadata ELSE l.map[x]])

\* ------------------------------------------------------------------------
\* Package records and the scanner
\* ------------------------------------------------------------------------

\* the optional descriptive fields of a record that no side-table entry filled
NoInfo == "none"
NoMod == "none"
DefaultPriority == 50

\* mods.rs scan_folder, the record pushed for one file
ModRecord(dir, filename, entry, enabled) ==
    [id        |-> GenerateModId(<<dir, filename>>),
     name      |-> ModName[filename],
     file_name |-> filename,
     path      |-> <<dir, filename>>,
     enabled   |-> enabled,
     priority  |-> IF VpkPriority[filename] = NoneV THEN DefaultPriority
                   ELSE VpkPriority[filename],
     size      |-> entry.data,
     info      |-> NoInfo]

\* mods.rs scan_folder: which directory entries become records
IsScanned(entries, filename) ==
    /\ entries[filename].isFile
    /\ (EndsWith(filename, "_dir.vpk") \/ EndsWith(filename, ".vpk"))

\* mods.rs scan_folder, in the order read_dir returned the entries
ScanFolder(entries, dir, enabled, order) ==
    LET kept == SelectSeq(order, LAMBDA n : IsScanned(entries, n))
    IN  [i \in 1..Len(kept) |-> ModRecord(dir, kept[i], entries[kept[i]], enabled)]

\* slice::sort_by_key(|m| m.priority): a stable sort
RECURSIVE InsertByPriority(_, _)
InsertByPriority(sorted, m) ==
    IF sorted = <<>> THEN <<m>>
    ELSE IF sorted[Len(sorted)].priority <= m.priority THEN Append(sorted, m)
    ELSE Append(InsertByPriority(SubSeq(sorted, 1, Len(sorted) - 1), m), sorted[Len(sorted)])

RECURSIVE SortByPriority(_)
SortByPriority(mods) ==
    IF mods = <<>> THEN <<>>
    ELSE InsertByPriority(SortByPriority(SubSeq(mods, 1, Len(mods) - 1)), mods[Len(mods)])

\* scan_mods without its final sort_by_key
ScanModsUnsorted(W, orderA, orderD) ==
    ScanFolder(W.a, ADDONS, TRUE, orderA) \o ScanFolder(W.d, DISABLED, FALSE, orderD)

\* mods.rs scan_mods; orderA and orderD are the orders in which read_dir
\* lists the two directories
ScanMods(W, orderA, orderD) ==
    SortByPriority(ScanFolder(W.a, ADDONS, TRUE, orderA) \o ScanFolder(W.d, DISABLED, FALSE, orderD))

\* The records of scan_mods as a set: what mods.iter().find(|m| m.id == mod_id)
\* searches (identities are distinct, so the order plays no part in it).
ScanSet(W) ==
    {ModRecord(ADDONS, n, W.a[n], TRUE) : n \in {x \in DOMAIN W.a : IsScanned(W.a, x)}}
    \cup {ModRecord(DISABLED, n, W.d[n], FALSE) : n \in {x \in DOMAIN W.d : IsScanned(W.d, x)}}

HasMod(W, mod_id) == \E m \in ScanSet(W) : m.id = mod_id

FindMod(W, mod_id) == CHOOSE m \in ScanSet(W) : m.id = mod_id

\* mod_metadata.rs apply_metadata_to_mod
ApplyMetadataToMod(mod_item, metadata) ==
    IF mod_item.file_name \in DOMAIN metadata
    THEN [mod_item EXCEPT !.name = metadata[mod_item.file_name].name,
                          !.info = metadata[mod_item.file_name].info]
    ELSE mod_item

\* the tail of enable_mod_cmd, disable_mod_cmd and set_mod_priority_cmd:
\* if let Ok(metadata) = load_metadata(..) { apply_metadata_to_mod(..) }
WithMetadata(W, fault, mod_item) ==
    LET l == LoadMetadata(W, fault)
    IN  IF l.ok THEN ApplyMetadataToMod(mod_item, l.map) ELSE mod_item

\* ------------------------------------------------------------------------
\* Lifecycle operations.  Each yields [ok, err, mod, w]: the Result, the
\* record returned on success and the world afterwards.
\* ------------------------------------------------------------------------

Failed(err, W) == [ok |-> FALSE, err |-> err, mod |-> NoMod, w |-> W]

Succeeded(mod, W) == [ok |-> TRUE, err |-> "", mod |-> mod, w |-> W]

\* enable_mod moving the file from the disabled directory whatever the scan
\* said about the package, without the early return
EnableTargetFromDisabled(W, io, target_mod) ==
    LET dest_path == <<ADDONS, target_mod.file_name>>
        r         == FsRenameIo(W, io, <<DISABLED, target_mod.file_name>>, dest_path)
    IN  IF ~r.ok THEN Failed("Io", W)
        ELSE Succeeded([target_mod EXCEPT !.enabled = TRUE, !.path = dest_path], r.w)

\* mods.rs enable_mod, once target_mod is found
EnableTarget(W, io, target_mod) ==
    LET dest_path == <<ADDONS, target_mod.file_name>>
        r         == FsRenameIo(W, io, target_mod.path, dest_path)
    IN  IF target_mod.enabled THEN Succeeded(target_mod, W)
        ELSE IF ~r.ok THEN Failed("Io", W)
        ELSE Succeeded([target_mod EXCEPT !.enabled = TRUE, !.path = dest_path], r.w)

\* mods.rs enable_mod
EnableMod(W, io, mod_id) ==
    IF ~HasMod(W, mod_id) THEN Failed("ModNotFound", W)
    ELSE EnableTarget(W, io, FindMod(W, mod_id))

\* disable_mod returning the record with the flag it had
DisableTargetKeepFlag(W, io, target_mod) ==
    LET dest_path == <<DISABLED, target_mod.file_name>>
        r         == FsRenameIo(W, io, target_mod.path, dest_path)
    IN  IF ~target_mod.enabled THEN Succeeded(target_mod, W)
        ELSE IF ~r.ok THEN Failed("Io", W)
        ELSE Succeeded([target_mod EXCEPT !.path = dest_path], r.w)

\* mods.rs disable_mod, once target_mod is found
DisableTarget(W, io, target_mod) ==
    LET dest_path == <<DISABLED, target_mod.file_name>>
        r         == FsRenameIo(W, io, target_mod.path, dest_path)
    IN  IF ~target_mod.enabled THEN Succeeded(target_mod, W)
        ELSE IF ~r.ok THEN Failed("Io", W)
        ELSE Succeeded([target_mod EXCEPT !.enabled = FALSE, !.path = dest_path], r.w)

\* mods.rs disable_mod
DisableMod(W, io, mod_id) ==
    IF ~HasMod(W, mod_id) THEN Failed("ModNotFound", W)
    ELSE DisableTarget(W, io, FindMod(W, mod_id))

\* mods.rs delete_mod, the loop over read_dir(parent): entries are visited in
\* the given order; the first failing remove_file ends the loop with the error
RECURSIVE RemoveRelated(_, _, _, _, _)
RemoveRelated(W, denied, dir, base_name, order) ==
    IF order = <<>> THEN [ok |-> TRUE, w |-> W]
    ELSE LET filename == Head(order)
             r        == FsRemoveFileIo(W, denied, <<dir, filename>>)
         IN  IF StartsWith(filename, base_name) /\ EndsWith(filename, ".vpk")
             THEN (IF r.ok THEN RemoveRelated(r.w, denied, dir, base_name, Tail(order))
                   ELSE [ok |-> FALSE, w |-> W])
             ELSE RemoveRelated(W, denied, dir, base_name, Tail(order))

\* mods.rs delete_mod after the primary file is removed: the result of the
\* loop over the siblings
DeleteRelated(r2) == IF ~r2.ok THEN Failed("Io", r2.w) ELSE Succeeded(NoMod, r2.w)

\* delete_mod with the loop over the siblings before the removal of the
\* primary file
DeleteTargetSiblingsFirst(W, denied, target_mod, order) ==
    LET base_name == TrimEndMatches(target_mod.file_name, "_dir.vpk")
        r2        == RemoveRelated(W, denied, target_mod.path[1], base_name,
                                   SelectSeq(order, LAMBDA n : n # target_mod.file_name))
        r1        == FsRemoveFileIo(r2.w, denied, target_mod.path)
    IN  IF ~r2.ok THEN Failed("Io", r2.w)
        ELSE IF ~r1.ok THEN Failed("Io", r2.w)
        ELSE Succeeded(NoMod, r1.w)

\* mods.rs delete_mod, once target_mod is found; remove_file fails on the
\* file named denied
DeleteTarget(W, denied, target_mod, order) ==
    LET r1        == FsRemoveFileIo(W, denied, target_mod.path)
        base_name == TrimEndMatches(target_mod.file_name, "_dir.vpk")
    IN  IF ~r1.ok THEN Failed("Io", W)
        ELSE DeleteRelated(RemoveRelated(r1.w, denied, target_mod.path[1], base_name, order))

\* mods.rs delete_mod; order is the read_dir order of the parent directory
\* after the primary file was removed
DeleteMod(W, denied, mod_id, order) ==
    IF ~HasMod(W, mod_id) THEN Failed("ModNotFound", W)
    ELSE DeleteTarget(W, denied, FindMod(W, mod_id), order)

\* set_mod_priority without the test of dest_path.exists()
SetTargetPriorityUnchecked(W, io, target_mod, new_priority) ==
    LET source_path  == target_mod.path
        new_filename == PakFileName(Min(new_priority, 99))
        dest_path    == <<source_path[1], new_filename>>
        r            == FsRenameIo(W, io, source_path, dest_path)
    IN  IF ~r.ok THEN Failed("Io", W)
        ELSE Succeeded([target_mod EXCEPT !.priority = new_priority,
                                          !.file_name = new_filename,
                                          !.path = dest_path], r.w)

\* mods.rs set_mod_priority, once target_mod is found
SetTargetPriority(W, io, target_mod, new_priority) ==
    LET source_path  == target_mod.path
        new_filename == PakFileName(Min(new_priority, 99))
        dest_path    == <<source_path[1], new_filename>>
        r            == FsRenameIo(W, io, source_path, dest_path)
    IN  IF PathExists(W, dest_path) /\ dest_path # source_path
        THEN Failed("PriorityInUse", W)
        ELSE IF ~r.ok THEN Failed("Io", W)
        ELSE Succeeded([target_mod EXCEPT !.priority = new_priority,
                                          !.file_name = new_filename,
                                          !.path = dest_path], r.w)

\* mods.rs set_mod_priority
SetModPriority(W, io, mod_id, new_priority) ==
    IF ~HasMod(W, mod_id) THEN Failed("ModNotFound", W)
    ELSE SetTargetPriority(W, io, FindMod(W, mod_id), new_priority)

\* the tail of a command were a side-table that cannot be loaded an error
RespondOrFail(r, fault) ==
    IF ~r.ok THEN r
    ELSE IF fault = "load" THEN Failed("Metadata", r.w)
    ELSE Succeeded(WithMetadata(r.w, fault, r.mod), r.w)

\* the tail of a command that returns the record: the error of the operation
\* r is passed on ("?"), the record gets the stored metadata
Respond(r, fault) ==
    IF ~r.ok THEN r ELSE Succeeded(WithMetadata(r.w, fault, r.mod), r.w)

\* commands.rs enable_mod_cmd
EnableModCmd(W, fault, io, mod_id) == Respond(EnableMod(W, io, mod_id), fault)

\* commands.rs disable_mod_cmd
DisableModCmd(W, fault, io, mod_id) == Respond(DisableMod(W, io, mod_id), fault)

\* commands.rs delete_mod_cmd: the side-table entry goes first, its failure
\* is ignored
DeleteModCmd(W, fault, denied, mod_id, order) ==
    LET W1 == IF HasMod(W, mod_id)
              THEN RemoveMetadataEntry(W, fault, FindMod(W, mod_id).file_name).w
              ELSE W
    IN  DeleteMod(W1, denied, mod_id, order)

\* commands.rs set_mod_priority_cmd after set_mod_priority returned r: the
\* side-table key follows the file (a failure of the move is ignored)
FollowRename(r, fault, old_file_name) ==
    IF ~r.ok THEN r
    ELSE Respond([r EXCEPT !.w = RenameMetadataKey(r.w, fault, old_file_name, r.mod.file_name).w],
                 fault)

\* commands.rs set_mod_priority_cmd; old_file_name is read from a scan made
\* before the rename
SetModPriorityCmd(W, fault, io, mod_id, priority) ==
    IF ~HasMod(W, mod_id) THEN SetModPriority(W, io, mod_id, priority)
    ELSE FollowRename(SetModPriority(W, io, mod_id, priority), fault, FindMod(W, mod_id).file_name)

\* commands.rs get_mods: scan_mods, then apply_metadata_to_mods when the
\* side-table loads
GetMods(W, fault, orderA, orderD) ==
    LET mods == ScanMods(W, orderA, orderD)
    IN  [i \in 1..Len(mods) |-> WithMetadata(W, fault, mods[i])]

\* ------------------------------------------------------------------------
\* The slot allocator
\* ------------------------------------------------------------------------

\* the used set that find_available_pak_number and cleanup_addons collect:
\* parse_pak_number of every regular file of both directories
UsedPaks(W) ==
    ({PakNumber[n] : n \in {x \in DOMAIN W.a : W.a[x].isFile}}
     \cup {PakNumber[n] : n \in {x \in DOMAIN W.d : W.d[x].isFile}}) \ {NoneV}

\* the scan of lo..=hi from the top: the largest unused number
LastUnused(lo, hi, used) ==
    IF (lo..hi) \ used = {} THEN NoneV
    ELSE CHOOSE n \in (lo..hi) \ used : \A m \in (lo..hi) \ used : m <= n

\* for number in lo..=hi { if !used.contains(&number) { return number } }
RECURSIVE FirstUnused(_, _, _)
FirstUnused(lo, hi, used) ==
    IF lo > hi THEN NoneV
    ELSE IF lo \notin used THEN lo
    ELSE FirstUnused(lo + 1, hi, used)

\* find_available_pak_number without its second loop (no wrap below preferred)
FindAvailableNoWrap(preferred, used) == FirstUnused(preferred, 99, used)

\* commands.rs find_available_pak_number, the two loops over the used set
\* (also written out in cleanup_addons); NoneV is the exhaustion error
FindAvailable(preferred, used) ==
    IF FirstUnused(preferred, 99, used) # NoneV THEN FirstUnused(preferred, 99, used)
    ELSE FirstUnused(0, preferred - 1, used)

\* commands.rs find_available_pak_number
FindAvailablePakNumber(preferred, W) == FindAvailable(preferred, UsedPaks(W))

\* ------------------------------------------------------------------------
\* The variant coordinator
\* ------------------------------------------------------------------------

\* the files of one directory that collect_mina_files puts on a list, in
\* read_dir order, as <<file name, is_enabled>>
CollectFrom(entries, metadata_map, order, kind, is_enabled) ==
    LET kept == SelectSeq(order, LAMBDA n : n \in DOMAIN entries /\ entries[n].isFile
                                            /\ CollectMinaKind(n, metadata_map) = kind)
    IN  [i \in 1..Len(kept) |-> <<kept[i], is_enabled>>]

\* preset_files / texture_files after both read_dir loops
CollectMinaFiles(W, metadata_map, orderA, orderD, kind) ==
    CollectFrom(W.a, metadata_map, orderA, kind, TRUE)
    \o CollectFrom(W.d, metadata_map, orderD, kind, FALSE)

\* the loop over preset_files of set_mina_preset and apply_mina_variant: the
\* selected file is enabled, every other enabled preset is disabled
RECURSIVE SwapPresets(_, _, _, _)
SwapPresets(W, io, preset_files, selected) ==
    IF preset_files = <<>> THEN [ok |-> TRUE, w |-> W]
    ELSE LET file_name  == Head(preset_files)[1]
             is_enabled == Head(preset_files)[2]
             source     == IF is_enabled THEN ADDONS ELSE DISABLED
             dest       == IF is_enabled THEN DISABLED ELSE ADDONS
             moves      == IF file_name = selected THEN ~is_enabled ELSE is_enabled
             r          == FsRenameIo(W, io, <<source, file_name>>, <<dest, file_name>>)
         IN  IF ~moves THEN SwapPresets(W, io, Tail(preset_files), selected)
             ELSE IF r.ok THEN SwapPresets(r.w, io, Tail(preset_files), selected)
             ELSE [ok |-> FALSE, w |-> W]

\* the loop over texture_files: a disabled companion texture is enabled
RECURSIVE EnableTextures(_, _, _)
EnableTextures(W, io, texture_files) ==
    IF texture_files = <<>> THEN [ok |-> TRUE, w |-> W]
    ELSE LET file_name  == Head(texture_files)[1]
             is_enabled == Head(texture_files)[2]
             r          == FsRenameIo(W, io, <<DISABLED, file_name>>, <<ADDONS, file_name>>)
         IN  IF is_enabled THEN EnableTextures(W, io, Tail(texture_files))
             ELSE IF r.ok THEN EnableTextures(r.w, io, Tail(texture_files))
             ELSE [ok |-> FALSE, w |-> W]

\* the texture loop after the preset loop returned r1
ThenTextures(r1, io, texture_files) ==
    IF ~r1.ok THEN r1 ELSE EnableTextures(r1.w, io, texture_files)

\* set_mina_preset and apply_mina_variant, both loops: [ok, w]
Activate(W, io, preset_files, texture_files, selected) ==
    ThenTextures(SwapPresets(W, io, preset_files, selected), io, texture_files)

\* set_mina_preset looking for the named preset only after both loops
PresetResultAfterLoops(W, preset_files, preset_file_name, r2) ==
    IF ~r2.ok THEN Failed("Io", r2.w)
    ELSE IF ~\E i \in 1..Len(preset_files) : preset_files[i][1] = preset_file_name
    THEN Failed("ModNotFound", r2.w)
    ELSE Succeeded(NoMod, r2.w)

\* commands.rs set_mina_preset, once the two lists are collected and both
\* loops ran with result r2
PresetResult(W, preset_files, preset_file_name, r2) ==
    IF ~\E i \in 1..Len(preset_files) : preset_files[i][1] = preset_file_name
    THEN Failed("ModNotFound", W)
    ELSE IF ~r2.ok THEN Failed("Io", r2.w)
    ELSE Succeeded(NoMod, r2.w)

\* commands.rs set_mina_preset, once the two lists are collected
SetCollectedPreset(W, io, preset_files, texture_files, preset_file_name) ==
    PresetResult(W, preset_files, preset_file_name,
                 Activate(W, io, preset_files, texture_files, preset_file_name))

\* commands.rs set_mina_preset
SetMinaPreset(W, fault, io, preset_file_name, orderA, orderD) ==
    SetCollectedPreset(W, io,
        CollectMinaFiles(W, LoadMetadata(W, fault).map, orderA, orderD, "preset"),
        CollectMinaFiles(W, LoadMetadata(W, fault).map, orderA, orderD, "texture"),
        preset_file_name)

\* the metadata entry apply_mina_variant writes for the new file
VariantMetadata(preset_label, hero_category_id) ==
    [name |-> MinaMarker \o " " \o preset_label, info |-> <<"Mod", hero_category_id>>]

\* Option::unwrap_or
UnwrapOr(v, default) == IF v = NoneV THEN default ELSE v

\* the preferred slot when the number in the entry's file name is not used
PreferredPakDefault(entry_name) == UnwrapOr(NoneV, 20)

\* apply_mina_variant: parse_pak_number(entry_name_str).unwrap_or(20)
PreferredPak(entry_name) == UnwrapOr(PakNumber[entry_name], 20)

\* what apply_mina_variant holds after the extracted file is in place:
\* [ok, err, w, dest_file_name, metadata_map]
PlaceFailed(err, W) ==
    [ok |-> FALSE, err |-> err, w |-> W, dest_file_name |-> "", metadata_map |-> <<>>]

\* commands.rs apply_mina_variant from the allocator's answer pak_number to
\* metadata_map.insert: the extracted file, of content data, is moved into
\* the addons directory (on the cross-device error by copy, 486-490, with
\* the same result)
PlaceAt(W, fault, pak_number, preset_label, hero_category_id, data) ==
    LET dest_file_name == PakFileName(pak_number)
        dest_path      == <<ADDONS, dest_file_name>>
        r              == IF PathExists(W, dest_path) THEN FsRemoveFile(W, dest_path)
                          ELSE [ok |-> TRUE, w |-> W]
    IN  IF pak_number = NoneV THEN PlaceFailed("NoSlot", W)
        ELSE IF ~r.ok THEN PlaceFailed("Io", W)
        ELSE [ok |-> TRUE, err |-> "",
              w |-> [r.w EXCEPT !.a = MapPut(@, dest_file_name, [isFile |-> TRUE, data |-> data])],
              dest_file_name |-> dest_file_name,
              metadata_map |-> MapPut(LoadMetadata(W, fault).map, dest_file_name,
                                      VariantMetadata(preset_label, hero_category_id))]

\* commands.rs apply_mina_variant up to metadata_map.insert.  extracted is
\* FALSE when extract_7z_entry fails or leaves no file.
PlaceVariant(W, fault, entry_name, preset_label, hero_category_id, extracted, data) ==
    IF ~extracted THEN PlaceFailed("Settings", W)
    ELSE PlaceAt(W, fault, FindAvailablePakNumber(PreferredPak(entry_name), W),
                 preset_label, hero_category_id, data)

\* commands.rs apply_mina_variant after both loops returned r2: the entry of
\* the new file is stored (a failure of the store is ignored)
VariantResult(r2, fault, dest_file_name, metadata) ==
    IF ~r2.ok THEN Failed("Io", r2.w)
    ELSE Succeeded(NoMod, UpsertMetadataForFiles(r2.w, fault, {dest_file_name}, metadata).w)

\* commands.rs apply_mina_variant, once the file is placed with result p
ApplyPlaced(W, fault, io, p, preset_label, hero_category_id, orderA, orderD) ==
    IF ~p.ok THEN Failed(p.err, W)
    ELSE VariantResult(
             Activate(p.w, io,
                      CollectMinaFiles(p.w, p.metadata_map, orderA, orderD, "preset"),
                      CollectMinaFiles(p.w, p.metadata_map, orderA, orderD, "texture"),
                      p.dest_file_name),
             fault, p.dest_file_name, VariantMetadata(preset_label, hero_category_id))

\* commands.rs apply_mina_variant
ApplyMinaVariant(W, fault, io, entry_name, preset_label, hero_category_id, extracted, data, orderA, orderD) ==
    ApplyPlaced(W, fault, io,
                PlaceVariant(W, fault, entry_name, preset_label, hero_category_id, extracted, data),
                preset_label, hero_category_id, orderA, orderD)

\* ------------------------------------------------------------------------
\* The addon-directory normalizer
\* ------------------------------------------------------------------------

\* Path::extension, lowercased: the part after the last '.', none ("") when
\* the name has no '.' or only a leading one
LowerExtension(file_name) ==
    LET i == RFind(file_name, ".")
    IN  IF i <= 0 THEN "" ELSE ToLowercase(SubSeq(file_name, i + 2, Len(file_name)))

\* the test of the extension without to_lowercase
IsArchiveNameExact(file_name) ==
    LET i == RFind(file_name, ".")
    IN  IF i <= 0 THEN FALSE
        ELSE SubSeq(file_name, i + 2, Len(file_name)) \in {"zip", "7z", "rar"}

\* matches!(ext, Some("zip") | Some("7z") | Some("rar"))
IsArchiveName(file_name) ==
    LowerExtension(file_name) \in {"zip", "7z", "rar"}

\* commands.rs move_with_fallback: on the cross-device error the file is
\* copied and the source removed; any other error of rename is returned
MoveWithFallback(W, io, from, to) ==
    IF RenameError(io, from) = "xdev" THEN CopyThenRemove(W, from, to)
    ELSE IF RenameError(io, from) # "none" THEN [ok |-> FALSE, w |-> W]
    ELSE FsRename(W, from, to)

\* cleanup_addons, the loop that removes leftover archives from one directory
\* (remove_file of a regular file does not fail)
RemoveArchives(entries) ==
    [x \in {n \in DOMAIN entries : ~(entries[n].isFile /\ IsArchiveName(n))} |-> entries[x]]

ArchiveCount(entries) == Cardinality({n \in DOMAIN entries : entries[n].isFile /\ IsArchiveName(n)})

\* The sweep's running state: [ok, io, w, map, used] and the counters.
\* cleanup_addons, the body of the texture loop for one entry
TextureStep(st, dir, file_name) ==
    LET dest_name == PakFileName(21)
        r         == MoveWithFallback(st.w, st.io, <<dir, file_name>>, <<dir, dest_name>>)
    IN  IF ~PathIsFile(st.w, <<dir, file_name>>) \/ ~MinaTexture[file_name]
           \/ file_name = dest_name
        THEN st
        ELSE IF 21 \in st.used THEN [st EXCEPT !.skipped_mina_textures = @ + 1]
        ELSE IF ~r.ok THEN [st EXCEPT !.ok = FALSE]
        ELSE [st EXCEPT !.w = r.w,
                        !.map = RenameMetadataKeyInline(@, file_name, dest_name),
                        !.used = @ \cup {21},
                        !.renamed_mina_textures = @ + 1]

\* cleanup_addons, the texture loop over one directory in read_dir order; a
\* failed move ends the command
RECURSIVE NormalizeTextures(_, _, _)
NormalizeTextures(st, dir, order) ==
    IF order = <<>> \/ ~st.ok THEN st
    ELSE NormalizeTextures(TextureStep(st, dir, Head(order)), dir, Tail(order))

\* the body of the preset loop without used_paks.insert(target_number)
PresetStepNoInsert(st, dir, file_name, target_number) ==
    LET dest_file_name == PakFileName(target_number)
        r              == MoveWithFallback(st.w, st.io, <<dir, file_name>>, <<dir, dest_file_name>>)
    IN  IF ~PathIsFile(st.w, <<dir, file_name>>) \/ ~IsMinaPreset(file_name, st.map)
           \/ PakFile[file_name]
        THEN st
        ELSE IF target_number = NoneV THEN [st EXCEPT !.skipped_mina_presets = @ + 1]
        ELSE IF PathExists(st.w, <<dir, dest_file_name>>)
        THEN [st EXCEPT !.skipped_mina_presets = @ + 1]
        ELSE IF ~r.ok THEN [st EXCEPT !.ok = FALSE]
        ELSE [st EXCEPT !.w = r.w,
                        !.map = RenameMetadataKeyInline(@, file_name, dest_file_name),
                        !.renamed_mina_presets = @ + 1]

\* cleanup_addons, the body of the preset loop for one entry, target_number
\* being the answer of the two allocation loops
PresetStep(st, dir, file_name, target_number) ==
    LET dest_file_name == PakFileName(target_number)
        r              == MoveWithFallback(st.w, st.io, <<dir, file_name>>, <<dir, dest_file_name>>)
    IN  IF ~PathIsFile(st.w, <<dir, file_name>>) \/ ~IsMinaPreset(file_name, st.map)
           \/ PakFile[file_name]
        THEN st
        ELSE IF target_number = NoneV THEN [st EXCEPT !.skipped_mina_presets = @ + 1]
        ELSE IF PathExists(st.w, <<dir, dest_file_name>>)
        THEN [st EXCEPT !.skipped_mina_presets = @ + 1]
        ELSE IF ~r.ok THEN [st EXCEPT !.ok = FALSE]
        ELSE [st EXCEPT !.w = r.w,
                        !.map = RenameMetadataKeyInline(@, file_name, dest_file_name),
                        !.used = @ \cup {target_number},
                        !.renamed_mina_presets = @ + 1]

\* cleanup_addons, the preset loop over one directory in read_dir order
RECURSIVE NormalizePresets(_, _, _)
NormalizePresets(st, dir, order) ==
    IF order = <<>> \/ ~st.ok THEN st
    ELSE NormalizePresets(PresetStep(st, dir, Head(order), FindAvailable(20, st.used)),
                          dir, Tail(order))

\* cleanup_addons before the two normalizing loops: the side-table is loaded
\* (empty when the load fails), the used set collected, the archives removed
SweepStart(W, fault, io) ==
    [ok |-> TRUE, io |-> io,
     w |-> [W EXCEPT !.a = RemoveArchives(@), !.d = RemoveArchives(@)],
     map |-> LoadMetadata(W, fault).map,
     used |-> UsedPaks(W),
     removed_archives |-> ArchiveCount(W.a) + ArchiveCount(W.d),
     renamed_mina_presets |-> 0, renamed_mina_textures |-> 0,
     skipped_mina_presets |-> 0, skipped_mina_textures |-> 0]

\* cleanup_addons after the loops: the side-table is saved (a failure of the
\* save is ignored) and the counters returned
SweepResult(st, fault) ==
    IF ~st.ok THEN [ok |-> FALSE, err |-> "Settings", w |-> st.w, counts |-> NoMod]
    ELSE [ok |-> TRUE, err |-> "", w |-> SaveMetadata(st.w, fault, st.map).w,
          counts |-> [removed_archives      |-> st.removed_archives,
                      renamed_mina_presets  |-> st.renamed_mina_presets,
                      renamed_mina_textures |-> st.renamed_mina_textures,
                      skipped_mina_presets  |-> st.skipped_mina_presets,
                      skipped_mina_textures |-> st.skipped_mina_textures]]

\* commands.rs cleanup_addons; texA, texD, preA, preD are the read_dir orders
\* of the two directories in the texture loop and in the preset loop.
\* Yields [ok, err, w, counts].
CleanupAddons(W, fault, io, texA, texD, preA, preD) ==
    SweepResult(
        NormalizePresets(
            NormalizePresets(
                NormalizeTextures(
                    NormalizeTextures(SweepStart(W, fault, io), ADDONS, texA),
                    DISABLED, texD),
                ADDONS, preA),
            DISABLED, preD),
        fault)

\* ------------------------------------------------------------------------
\* The state machine: one action per command
\* ------------------------------------------------------------------------

VARIABLES addons, disabled, meta, fresh, steps, last

vars == <<addons, disabled, meta, fresh, steps, last>>

World == [a |-> addons, d |-> disabled, m |-> meta]

\* Bounds of the model: the commands issued in one run, and the variants
\* applied in it
MaxSteps == 2
MaxVariants == 1

\* the priorities a reprioritize request may carry
PriorityInputs == {7, 150}

\* how the side-table file may fail during a command
MetaFaults == {"none", "load", "save"}

\* how the renames of a command may fail: not at all, with the cross-device
\* error, or for one file that cannot be moved
IoFaults == {"none", "xdev", PRESET_B}

File(data) == [isFile |-> TRUE, data |-> data]
SubDir == [isFile |-> FALSE, data |-> 0]
Entry(name, info) == [name |-> name, info |-> info]

\* The directory layouts the runs start from.  In each of them no two package
\* files of the two directories claim the same slot.  No two files, of one
\* layout or of two, have the same content.
Scenarios ==
    { \* the packages of the end-to-end scenario, a stray file and a directory
      [a |-> (PakFileName(5) :> File(1)) @@ (PakFileName(10) :> File(2))
             @@ (README :> File(4)) @@ (SUB_VPK :> SubDir),
       d |-> (PakFileName(7) :> File(5)),
       m |-> (PakFileName(5) :> Entry("Alpha", 11)) @@ (PakFileName(99) :> Entry("Gone", 12))],
      \* a variant group with its companion texture, a package with a part
      \* file and a leftover archive
      [a |-> (PRESET_A :> File(21)) @@ (PakFileName(21) :> File(22)) @@ (SIBLING_21 :> File(26))
             @@ (OLD_ZIP :> File(23)),
       d |-> (PRESET_B :> File(24)) @@ (MINA_TEXTURES :> File(25)),
       m |-> (PRESET_A :> Entry("Preset A", 11))] }

\* no command's result is waiting for the caller.  While one is, last holds
\* the command, its arguments, the world it started in (before) and its result.
Idle == [op |-> "idle"]

Init ==
    /\ \E sc \in Scenarios : addons = sc.a /\ disabled = sc.d /\ meta = sc.m
    /\ fresh = 0
    /\ steps = 0
    /\ last = Idle

\* the permutations of a finite set: the orders read_dir may list it in
RECURSIVE Perms(_)
Perms(S) == IF S = {} THEN {<<>>} ELSE UNION {{<<x>> \o p : p \in Perms(S \ {x})} : x \in S}

\* the identities a caller may pass: those of the scanned packages and one
\* that no package has
GHOST_VPK == "ghost.vpk"

TargetIds == {m.id : m \in ScanSet(World)} \cup {GenerateModId(<<ADDONS, GHOST_VPK>>)}

Commit(W) == addons' = W.a /\ disabled' = W.d /\ meta' = W.m

\* a command starts when no result is pending
Start == last = Idle /\ steps < MaxSteps /\ steps' = steps + 1

GetModsAction ==
    /\ Start
    /\ \E fault \in MetaFaults :
       \E orderA \in Perms({n \in DOMAIN addons : IsScanned(addons, n)}) :
       \E orderD \in Perms({n \in DOMAIN disabled : IsScanned(disabled, n)}) :
           /\ last' = [op |-> "get_mods", before |-> World, fault |-> fault, ok |-> TRUE,
                       ret |-> GetMods(World, fault, orderA, orderD)]
           /\ UNCHANGED <<addons, disabled, meta, fresh>>

Enable ==
    /\ Start
    /\ \E fault \in MetaFaults, io \in IoFaults, id \in TargetIds :
           \E r \in {EnableModCmd(World, fault, io, id)} :
               /\ Commit(r.w)
               /\ last' = [op |-> "enable", before |-> World, fault |-> fault, io |-> io, id |-> id, ok |-> r.ok,
                           err |-> r.err, ret |-> r.mod]
               /\ UNCHANGED fresh

Disable ==
    /\ Start
    /\ \E fault \in MetaFaults, io \in IoFaults, id \in TargetIds :
           \E r \in {DisableModCmd(World, fault, io, id)} :
               /\ Commit(r.w)
               /\ last' = [op |-> "disable", before |-> World, fault |-> fault, io |-> io, id |-> id, ok |-> r.ok,
                           err |-> r.err, ret |-> r.mod]
               /\ UNCHANGED fresh

\* the entries the loop of delete_mod acts on
RelatedNames(W, id) ==
    IF ~HasMod(W, id) THEN {}
    ELSE LET t == FindMod(W, id)
         IN  {n \in DOMAIN DirOf(W, t.path[1]) \ {t.file_name} :
                  StartsWith(n, TrimEndMatches(t.file_name, "_dir.vpk")) /\ EndsWith(n, ".vpk")}

\* the file whose removal fails during a delete, if any
RemoveFaults == {"none", PakFileName(5), PakFileName(21), SIBLING_21}

Delete ==
    /\ Start
    /\ \E fault \in MetaFaults, denied \in RemoveFaults, id \in TargetIds :
       \E order \in Perms(RelatedNames(World, id)) :
           \E r \in {DeleteModCmd(World, fault, denied, id, order)} :
               /\ Commit(r.w)
               /\ last' = [op |-> "delete", before |-> World, fault |-> fault, denied |-> denied,
                           id |-> id, ok |-> r.ok,
                           order |-> order, err |-> r.err, ret |-> r.mod]
               /\ UNCHANGED fresh

Reprioritize ==
    /\ Start
    /\ \E fault \in MetaFaults, io \in IoFaults, id \in TargetIds, priority \in PriorityInputs :
           \E r \in {SetModPriorityCmd(World, fault, io, id, priority)} :
               /\ Commit(r.w)
               /\ last' = [op |-> "reprioritize", before |-> World, fault |-> fault, io |-> io, id |-> id,
                           arg |-> priority,
                           ok |-> r.ok, err |-> r.err, ret |-> r.mod]
               /\ UNCHANGED fresh

\* the files of a directory that collect_mina_files lists
MinaNames(entries, metadata_map) ==
    {n \in DOMAIN entries : entries[n].isFile /\ CollectMinaKind(n, metadata_map) # "none"}

SetPreset ==
    /\ Start
    /\ \E fault \in MetaFaults, io \in IoFaults :
       \E name \in DOMAIN addons \cup DOMAIN disabled :
       \E orderA \in Perms(MinaNames(addons, LoadMetadata(World, fault).map)) :
       \E orderD \in Perms(MinaNames(disabled, LoadMetadata(World, fault).map)) :
           \E r \in {SetMinaPreset(World, fault, io, name, orderA, orderD)} :
               /\ Commit(r.w)
               /\ last' = [op |-> "set_mina_preset", before |-> World, fault |-> fault, io |-> io, arg |-> name,
                           ok |-> r.ok, err |-> r.err, ret |-> r.mod]
               /\ UNCHANGED fresh

\* the archive entries a variant may be applied from
VariantEntries == {PakFileName(99), RED_VPK}

ApplyVariant ==
    /\ Start
    /\ fresh < MaxVariants
    /\ \E fault \in MetaFaults, io \in IoFaults, entry \in VariantEntries, extracted \in BOOLEAN :
       \E p \in {PlaceVariant(World, fault, entry, "Red", NoneV, extracted, 100 + fresh)} :
       \E orderA \in Perms(MinaNames(p.w.a, p.metadata_map)) :
       \E orderD \in Perms(MinaNames(p.w.d, p.metadata_map)) :
       \E r \in {ApplyPlaced(World, fault, io, p, "Red", NoneV, orderA, orderD)} :
           /\ Commit(r.w)
           /\ fresh' = IF p.ok THEN fresh + 1 ELSE fresh
           /\ last' = [op |-> "apply_variant", before |-> World, fault |-> fault, io |-> io, arg |-> entry,
                       extracted |-> extracted, ok |-> r.ok, err |-> r.err, ret |-> r.mod]

\* the files the texture loop and the preset loop of cleanup_addons act on
TextureNames(entries) == {n \in DOMAIN entries : entries[n].isFile /\ MinaTexture[n]}

PresetNames(entries, metadata_map) ==
    {n \in DOMAIN entries : entries[n].isFile /\ IsMinaPreset(n, metadata_map) /\ ~PakFile[n]}

Cleanup ==
    /\ Start
    /\ \E fault \in MetaFaults, io \in IoFaults :
       \E texA \in Perms(TextureNames(addons)), texD \in Perms(TextureNames(disabled)) :
       \E preA \in Perms(PresetNames(addons, LoadMetadata(World, fault).map)) :
       \E preD \in Perms(PresetNames(disabled, LoadMetadata(World, fault).map)) :
           \E r \in {CleanupAddons(World, fault, io, texA, texD, preA, preD)} :
               /\ Commit(r.w)
               /\ last' = [op |-> "cleanup", before |-> World, fault |-> fault, io |-> io, ok |-> r.ok, err |-> r.err,
                           orders |-> <<texA, texD, preA, preD>>, ret |-> r.counts]
               /\ UNCHANGED fresh

\* the caller takes the result of the command; the next command may start
Return ==
    /\ last # Idle
    /\ last' = Idle
    /\ UNCHANGED <<addons, disabled, meta, fresh, steps>>

Next ==
    \/ Return
    \/ GetModsAction
    \/ Enable
    \/ Disable
    \/ Delete
    \/ Reprioritize
    \/ SetPreset
    \/ ApplyVariant
    \/ Cleanup

Spec == Init /\ [][Next]_vars

\* ------------------------------------------------------------------------
\* Functions checked on their own: each specification below draws the
\* inputs of one function and applies it
\* ------------------------------------------------------------------------

\* the highest slot number: "pak{:02}" holds two digits, the allocator scans
\* up to 99
MaxSlot == 99

NoFiles == <<>>

\* Formatting and parsing of the canonical file name
FmtInit ==
    /\ addons = NoFiles /\ disabled = NoFiles /\ meta = NoFiles
    /\ fresh = 0 /\ steps = 0 /\ last = Idle

FormatAndParse ==
    /\ last = Idle
    /\ \E p \in 0..MaxSlot :
           last' = [op |-> "format", arg |-> p, file_name |-> PakFileName(p),
                    priority |-> ParseVpkPriority(PakFileName(p)),
                    pak_number |-> ParsePakNumber(PakFileName(p))]
    /\ UNCHANGED <<addons, disabled, meta, fresh, steps>>

FmtNext ==
    \/ FormatAndParse
    \/ Return

SpecFmt == FmtInit /\ [][FmtNext]_vars

\* The slot allocator over directories that hold the canonical files of a set
\* of slots: all of 0..MaxSlot but a few, or only a few
HolePool == {0, 19, 20, 21, 99}

SlotSets == {(0..MaxSlot) \ H : H \in SUBSET HolePool} \cup SUBSET HolePool

DirWithSlots(S) == [n \in {PakFileName(k) : k \in S} |-> File(PakNumber[n])]

AllocInit ==
    /\ \E used \in SlotSets :
           /\ addons = DirWithSlots({k \in used : k % 2 = 0})
           /\ disabled = DirWithSlots({k \in used : k % 2 = 1})
    /\ meta = NoFiles
    /\ fresh = 0 /\ steps = 0 /\ last = Idle

Allocate ==
    /\ Start
    /\ \E preferred \in 0..MaxSlot :
           last' = [op |-> "allocate", before |-> World, arg |-> preferred,
                    ret |-> FindAvailablePakNumber(preferred, World)]
    /\ UNCHANGED <<addons, disabled, meta, fresh>>

AllocNext ==
    \/ Allocate
    \/ ApplyVariant
    \/ Return

SpecAlloc == AllocInit /\ [][AllocNext]_vars

\* The side-table's rename_key over every map of a few keys
MetaKeys == {PakFileName(5), PakFileName(7), PRESET_A}

MetaEntries == {Entry("Alpha", 11), Entry("Beta", 12)}

MetaMaps == UNION {[K -> MetaEntries] : K \in SUBSET MetaKeys}

MetaInit ==
    /\ addons = NoFiles /\ disabled = NoFiles
    /\ meta \in MetaMaps
    /\ fresh = 0 /\ steps = 0 /\ last = Idle

RenameKey ==
    /\ Start
    /\ \E fault \in MetaFaults, from \in MetaKeys, to \in MetaKeys :
       \E r \in {RenameMetadataKey(World, fault, from, to)} :
           /\ Commit(r.w)
           /\ last' = [op |-> "rename_key", before |-> World, fault |-> fault,
                       from |-> from, to |-> to, ok |-> r.ok,
                       inline |-> RenameMetadataKeyInline(meta, from, to)]
           /\ UNCHANGED fresh

\* the paths a caller hands to upsert_metadata_for_files: files of either
\* directory, under names with and without an entry
UpsertPaths == {<<dir, k>> : dir \in {ADDONS, DISABLED}, k \in {PakFileName(5), RED_VPK}}

\* path.file_name() of each path
FileNamesOf(paths) == {path[2] : path \in paths}

\* upsert_metadata_for_files; absent says that the side-table file does not
\* exist, in which case it holds no entry and reading it cannot fail
Upsert ==
    /\ Start
    /\ \E absent \in {a \in BOOLEAN : a => meta = NoFiles} :
       \E fault \in IF absent THEN MetaFaults \ {"load"} ELSE MetaFaults :
       \E paths \in SUBSET UpsertPaths, entry \in MetaEntries :
       \E r \in {UpsertMetadataForFiles(World, fault, FileNamesOf(paths), entry)} :
           /\ Commit(r.w)
           /\ last' = [op |-> "upsert", before |-> World, fault |-> fault,
                       absent |-> absent, paths |-> paths, entry |-> entry, ok |-> r.ok]
           /\ UNCHANGED fresh

MetaNext ==
    \/ RenameKey
    \/ Upsert
    \/ Return

SpecMeta == MetaInit /\ [][MetaNext]_vars

\* ------------------------------------------------------------------------
\* Properties
\* ------------------------------------------------------------------------

\* the regular files of both directories whose name ends with the package
\* suffix, as paths
PackagePaths(W) ==
    {<<ADDONS, n>> : n \in {x \in DOMAIN W.a : W.a[x].isFile /\ EndsWith(x, ".vpk")}}
    \cup {<<DISABLED, n>> : n \in {x \in DOMAIN W.d : W.d[x].isFile /\ EndsWith(x, ".vpk")}}

\* the slot a package file's name claims (NoneV: none)
SlotOf(path) == VpkPriority[path[2]]

OtherDir(dir) == IF dir = ADDONS THEN DISABLED ELSE ADDONS

\* the command of last was aimed at a package of the world it started in
Targeted == "id" \in DOMAIN last /\ HasMod(last.before, last.id)

\* the world is as it was when the command of last started
WorldUnchanged == addons = last.before.a /\ disabled = last.before.d /\ meta = last.before.m

\* C1: no two package files of the active and the disabled directory claim
\* the same slot number, in any state a sequence of commands leads to.
SlotUniqueness ==
    \A x \in PackagePaths(World), y \in PackagePaths(World) :
        (x # y /\ SlotOf(x) # NoneV) => SlotOf(x) # SlotOf(y)

\* the file name reprioritize renames target_mod to is taken, in the directory
\* of target_mod, by another file
Occupied(W, target_mod, new_priority) ==
    /\ PathExists(W, <<target_mod.path[1], PakFileName(Min(new_priority, MaxSlot))>>)
    /\ <<target_mod.path[1], PakFileName(Min(new_priority, MaxSlot))>> # target_mod.path

\* C2: reprioritize(id, n), when a file other than the target occupies the
\* target file name pak<n>_dir.vpk, fails with the collision error and leaves
\* the files of both directories and the side-table as they were.
ReprioritizeCollision ==
    (/\ last.op = "reprioritize"
     /\ Targeted
     /\ Occupied(last.before, FindMod(last.before, last.id), last.arg))
    => (~last.ok /\ last.err = "PriorityInUse" /\ WorldUnchanged)

\* a reprioritize was refused for a collision
ReprioritizeCollisionSeen ==
    /\ last.op = "reprioritize"
    /\ Targeted
    /\ Occupied(last.before, FindMod(last.before, last.id), last.arg)
    /\ last.err = "PriorityInUse"

\* the command of last found target_mod in the state it asks for
AlreadyThere(target_mod) ==
    \/ last.op = "enable" /\ target_mod.enabled
    \/ last.op = "disable" /\ ~target_mod.enabled

\* C3: enable of a package that is in the active directory, and disable of one
\* that is in the disabled directory, succeeds, changes no file and returns
\* the record the scan made of the package (with its stored metadata, as
\* get_mods reports it).
EnableDisableIdempotent ==
    (/\ last.op \in {"enable", "disable"}
     /\ Targeted
     /\ AlreadyThere(FindMod(last.before, last.id)))
    => (/\ last.ok
        /\ WorldUnchanged
        /\ last.ret = WithMetadata(last.before, last.fault, FindMod(last.before, last.id)))

\* a disable of a package that was in the disabled directory returned
DisableOfDisabledSeen ==
    /\ last.op = "disable"
    /\ Targeted
    /\ ~FindMod(last.before, last.id).enabled
    /\ last.ok

\* the effect C4 describes of moving target_mod to the other directory, from
\* world W to world V
MovedExactly(W, V, target_mod) ==
    LET name == target_mod.file_name
        src  == target_mod.path[1]
        dst  == OtherDir(target_mod.path[1])
    IN  /\ DirOf(V, src) = MapRemove(DirOf(W, src), name)
        /\ name \notin DOMAIN DirOf(W, dst)
        /\ DirOf(V, dst) = MapPut(DirOf(W, dst), name, DirOf(W, src)[name])
        /\ V.m = W.m
        /\ \E m \in ScanSet(V) :
               /\ m.path = <<dst, name>>
               /\ m.enabled = ~target_mod.enabled
               /\ m.priority = target_mod.priority
        /\ ~\E m \in ScanSet(V) : m.path = target_mod.path

\* C4: a successful disable of an enabled package (enable of a disabled one)
\* moves exactly that file, under its name, to the other directory, changes
\* no other file and no side-table entry, and a scan then reports the file
\* with the new enabled value and the same priority.
EnableDisableEffect ==
    (/\ last.op \in {"enable", "disable"}
     /\ Targeted
     /\ ~AlreadyThere(FindMod(last.before, last.id))
     /\ last.ok)
    => MovedExactly(last.before, World, FindMod(last.before, last.id))

\* the answer of scan in the example of C5
ExamplePaths ==
    {<<ADDONS, PakFileName(5)>>, <<ADDONS, PakFileName(10)>>, <<DISABLED, PakFileName(7)>>}

\* what C5 says of the sequence ret that a scan of world W returned
ScanIsExact(W, ret) ==
    /\ {ret[i].path : i \in 1..Len(ret)} = PackagePaths(W)
    /\ Len(ret) = Cardinality(PackagePaths(W))
    /\ \A i \in 1..Len(ret) :
           /\ ret[i].file_name = ret[i].path[2]
           /\ ret[i].enabled = (ret[i].path[1] = ADDONS)
    /\ \A i \in 1..Len(ret), j \in 1..Len(ret) : i < j => ret[i].priority <= ret[j].priority
    /\ PackagePaths(W) = ExamplePaths
       => /\ [i \in 1..Len(ret) |-> ret[i].priority] = <<5, 7, 10>>
          /\ [i \in 1..Len(ret) |-> ret[i].enabled] = <<TRUE, FALSE, TRUE>>

\* C5: scan returns exactly one record for every regular file of the two
\* directories whose name ends with the package suffix, none for a
\* subdirectory or another file, in ascending order of priority; the active
\* pak05 and pak10 with the disabled pak07 give 5, 7, 10 and true, false, true.
ScanExact == last.op = "get_mods" => ScanIsExact(last.before, last.ret)

\* a scan of the example's directories, which also hold a stray file and a
\* directory named like a package
ScanExampleSeen ==
    /\ last.op = "get_mods"
    /\ PackagePaths(last.before) = ExamplePaths
    /\ README \in DOMAIN last.before.a
    /\ SUB_VPK \in DOMAIN last.before.a

\* C6: for every priority p of 0..99, the canonical file name formatted from p
\* parses back to p with the scanner's priority parser and with the
\* allocator's pak-number parser.
FilenameRoundTrip ==
    last.op = "format" => (last.priority = last.arg /\ last.pak_number = last.arg)

\* a one-digit priority was formatted and parsed
RoundTripSeen == last.op = "format" /\ last.arg = 7 /\ last.file_name = "pak07_dir.vpk"

\* the least element of a non-empty set of numbers
Least(S) == CHOOSE n \in S : \A m \in S : n <= m

\* what C7 says of find_available(preferred, used) = ret
PolicyHolds(preferred, used, ret) ==
    LET above == (preferred..MaxSlot) \ used
        below == (0..(preferred - 1)) \ used
    IN  /\ ret = IF above # {} THEN Least(above) ELSE Least(below)
        /\ ret \in 0..MaxSlot
        /\ ret \notin used
        /\ used = (0..MaxSlot) \ {preferred} => ret = preferred

\* C7: for a preferred slot of 0..99 and a used set that leaves a slot of
\* 0..99 free, find_available returns the smallest unused slot of
\* preferred..99, or else the smallest unused slot below preferred; the
\* result is in 0..99 and unused.
AllocatorPolicy ==
    (last.op = "allocate" /\ ~((0..MaxSlot) \subseteq UsedPaks(last.before)))
    => PolicyHolds(last.arg, UsedPaks(last.before), last.ret)

\* the allocator wrapped around: nothing free from preferred up, slot 0 free
AllocatorWrapSeen ==
    /\ last.op = "allocate"
    /\ last.arg = 21
    /\ UsedPaks(last.before) = (0..MaxSlot) \ {0, 19}
    /\ last.ret = 0

\* C8: find_available fails with the exhaustion error exactly when every slot
\* of 0..99 is used; apply_variant then fails and no file of the active or the
\* disabled directory is created, renamed or removed.
AllocatorExhaustion ==
    /\ last.op = "allocate"
       => (last.ret = NoneV <=> (0..MaxSlot) \subseteq UsedPaks(last.before))
    /\ last.op = "apply_variant" /\ last.extracted
       => (last.err = "NoSlot" <=> (0..MaxSlot) \subseteq UsedPaks(last.before))
    /\ last.op = "apply_variant" /\ last.err = "NoSlot"
       => (addons = last.before.a /\ disabled = last.before.d)

\* apply_variant ran out of slots
ExhaustionSeen ==
    /\ last.op = "apply_variant"
    /\ last.err = "NoSlot"
    /\ UsedPaks(last.before) = 0..MaxSlot

\* file_name is a part file of the package whose primary file is primary: the
\* same base name and the .vpk suffix
IsPartOf(file_name, primary) ==
    /\ file_name # primary
    /\ StartsWith(file_name, TrimEndMatches(primary, "_dir.vpk"))
    /\ EndsWith(file_name, ".vpk")
    /\ ~EndsWith(file_name, "_dir.vpk")

\* what C9 says of world V after the delete of target_mod
DeletedAll(V, target_mod) ==
    /\ ~PathExists(V, target_mod.path)
    /\ \A n \in DOMAIN V.a \cup DOMAIN V.d : ~IsPartOf(n, target_mod.file_name)
    /\ last.fault = "none" => target_mod.file_name \notin DOMAIN V.m

\* no command was aimed at the part file itself: it is not in the disabled
\* directory, where only a command on it can have put it
PartFileNotMoved(W) == SIBLING_21 \notin DOMAIN W.d

\* C9: delete(id) removes the primary file of the package and all of its part
\* files, and leaves no side-table entry under the file name, whatever
\* enable, disable and reprioritize did to the package before.
DeleteRemovesAll ==
    (last.op = "delete" /\ Targeted /\ last.ok /\ PartFileNotMoved(last.before))
    => DeletedAll(World, FindMod(last.before, last.id))

\* what C10 says of rename_key(from, to) taking the map old to the map new
RenamedAs(old, new, from, to) ==
    IF from \in DOMAIN old
    THEN /\ to \in DOMAIN new
         /\ new[to] = old[from]
         /\ from # to => from \notin DOMAIN new
         /\ \A k \in (DOMAIN old \cup DOMAIN new) \ {from, to} :
                k \in DOMAIN old /\ k \in DOMAIN new /\ new[k] = old[k]
    ELSE new = old

\* C10: rename_key(from, to) puts the entry of from under to, replacing an
\* entry of to, leaves none under from unless from = to, and leaves every
\* other key alone; with no entry under from the map is unchanged.  Both the
\* persisted rename and the in-memory one of the normalizer do so.
RenameKeyMoves ==
    last.op = "rename_key"
    => /\ RenamedAs(last.before.m, last.inline, last.from, last.to)
       /\ last.fault = "none" => RenamedAs(last.before.m, meta, last.from, last.to)

\* an entry was renamed onto a key that had an entry of its own
RenameOverwriteSeen ==
    /\ last.op = "rename_key"
    /\ last.fault = "none"
    /\ last.from # last.to
    /\ last.from \in DOMAIN last.before.m
    /\ last.to \in DOMAIN last.before.m
    /\ last.before.m[last.from] # last.before.m[last.to]
    /\ meta[last.to] = last.before.m[last.from]

\* ------------------------------------------------------------------------
\* The side-table follows the files; the variant group
\* ------------------------------------------------------------------------

\* the renames a command made inside directory dir, from world W to world V:
\* <<A, B>> when the file that was named A is now named B (a file is known by
\* its content)
RenamedIn(W, V, dir) ==
    {ab \in (DOMAIN DirOf(W, dir)) \X (DOMAIN DirOf(V, dir)) :
        /\ ab[1] # ab[2]
        /\ DirOf(W, dir)[ab[1]].isFile
        /\ ab[1] \notin DOMAIN DirOf(V, dir)
        /\ ab[2] \notin DOMAIN DirOf(W, dir)
        /\ DirOf(V, dir)[ab[2]] = DirOf(W, dir)[ab[1]]}

\* the entry that map m held under A is held by map n under B, and n holds
\* nothing under A
KeyFollowed(m, n, A, B) ==
    A \in DOMAIN m => (B \in DOMAIN n /\ n[B] = m[A] /\ A \notin DOMAIN n)

\* C11: after a reprioritize call or a normalizer run, successful or not, made
\* with a side-table that loads and saves, every file the call renamed from A
\* to B has its side-table entry under B and none under A.
MetadataLockstep ==
    (last.op \in {"reprioritize", "cleanup"} /\ last.fault = "none")
    => \A dir \in {ADDONS, DISABLED} :
           \A ab \in RenamedIn(last.before, World, dir) :
               KeyFollowed(last.before.m, meta, ab[1], ab[2])

\* a normalizer run renamed a file whose entry the side-table holds, and
\* returned an error
LockstepBrokenSeen ==
    /\ last.op = "cleanup" /\ last.fault = "none" /\ ~last.ok
    /\ \E dir \in {ADDONS, DISABLED} :
           \E ab \in RenamedIn(last.before, World, dir) : ab[1] \in DOMAIN last.before.m

\* the members of the variant group that are enabled in world W: the regular
\* files of the active directory that collect_mina_files lists as presets
EnabledVariants(W) ==
    {n \in DOMAIN W.a : W.a[n].isFile /\ CollectMinaKind(n, W.m) = "preset"}

\* C12: in every state that lifecycle operations, variant operations and
\* normalizer runs lead to from a state with at most one enabled member, at
\* most one member of the variant group is in the active directory.
VariantExclusivity == Cardinality(EnabledVariants(World)) <= 1

\* an enable call has put a second member of the group in the active directory
SecondVariantEnabledSeen ==
    /\ last.op = "enable" /\ last.ok
    /\ Cardinality(EnabledVariants(last.before)) = 1
    /\ Cardinality(EnabledVariants(World)) = 2

\* the contents of the files of the start layouts that collect_mina_files
\* lists as kind ("preset" or "texture")
StartContents(kind) ==
    UNION {{sc.a[n].data : n \in {x \in DOMAIN sc.a : sc.a[x].isFile /\ CollectMinaKind(x, sc.m) = kind}}
           \cup {sc.d[n].data : n \in {x \in DOMAIN sc.d : sc.d[x].isFile /\ CollectMinaKind(x, sc.m) = kind}}
           : sc \in Scenarios}

\* the contents of the variant group: the presets of the start layouts and
\* the files apply_variant extracts
GroupContents == StartContents("preset") \cup {100 + k : k \in 0..MaxVariants}

TextureContents == StartContents("texture")

\* the names under which directory entries holds a regular file whose content
\* is one of contents
NamesHolding(entries, contents) ==
    {n \in DOMAIN entries : entries[n].isFile /\ entries[n].data \in contents}

\* the file the swap selected is in the active directory of V: the file named
\* by set_mina_preset, the file apply_variant added
SelectedEnabled(W, V) ==
    IF last.op = "set_mina_preset" THEN PathIsFile(V, <<ADDONS, last.arg>>)
    ELSE \E n \in DOMAIN V.a :
             /\ V.a[n].isFile
             /\ V.a[n].data \notin {W.a[x].data : x \in DOMAIN W.a} \cup {W.d[x].data : x \in DOMAIN W.d}

\* every file of the group that was enabled in W, the selected one apart, is
\* in the disabled directory of V
OthersDisabled(W, V) ==
    \A n \in NamesHolding(W.a, GroupContents) :
        (last.op = "set_mina_preset" /\ n = last.arg)
        \/ (n \notin DOMAIN V.a /\ n \in DOMAIN V.d /\ V.d[n] = W.a[n])

\* every companion texture that was disabled in W is in the active directory
\* of V
TexturesEnabled(W, V) ==
    \A n \in NamesHolding(W.d, TextureContents) :
        n \notin DOMAIN V.d /\ n \in DOMAIN V.a /\ V.a[n] = W.d[n]

\* C13: after a successful set_mina_preset(name) or apply_variant the
\* selected or new variant file is in the active directory, every other file
\* of the group that was enabled is in the disabled directory and a companion
\* texture that was disabled is in the active directory, also when a
\* normalizer run renamed files of the group before.
GroupSwapPostcondition ==
    (last.op \in {"set_mina_preset", "apply_variant"} /\ last.ok)
    => (/\ SelectedEnabled(last.before, World)
        /\ OthersDisabled(last.before, World)
        /\ TexturesEnabled(last.before, World))

\* apply_variant succeeded and left enabled a preset that a normalizer run had
\* renamed to pak20_dir.vpk
RenamedVariantLeftEnabledSeen ==
    /\ last.op = "apply_variant" /\ last.ok
    /\ PakFileName(20) \in NamesHolding(last.before.a, StartContents("preset"))
    /\ PakFileName(20) \in NamesHolding(addons, StartContents("preset"))

\* ------------------------------------------------------------------------
\* Archive extraction (extract.rs).  An archive is the sequence of its
\* entries [name, isDir, data]; the destination directory is a function from
\* names to [isFile, data] like the two package directories.  An extraction
\* yields [ok, err, dest, paths, attempts]: the Result, the destination
\* afterwards, the returned Vec as file names inside dest_dir, and the
\* decoders that were run, in order.
\* ------------------------------------------------------------------------

\* str::find: the 0-based index of the first occurrence of p in s, or -1
Find(s, p) ==
    LET hits == {i \in 1..(Len(s) - Len(p) + 1) : SubSeq(s, i, i + Len(p) - 1) = p}
    IN  IF hits = {} THEN -1
        ELSE (CHOOSE i \in hits : \A j \in hits : i <= j) - 1

\* Path::file_name of an entry name: the part after the last '/'
BaseName(name) == SubSeq(name, RFind(name, "/") + 2, Len(name))

\* the first directory of an entry name, "" when the entry is not nested
TopComponent(name) == IF Find(name, "/") <= 0 THEN "" ELSE SubSeq(name, 1, Find(name, "/"))

\* Path::extension as written: the part after the last '.', none ("") when
\* the name has no '.' or only a leading one
Extension(file_name) ==
    IF RFind(file_name, ".") <= 0 THEN ""
    ELSE SubSeq(file_name, RFind(file_name, ".") + 2, Len(file_name))

\* What an extraction yields: the Result, the destination directory, the
\* returned paths, the decoders tried, and what became of the scratch
\* directory of create_temp_dir: "none" (never created), "removed", "left".
ExtractFailed(err, dest, attempts) ==
    [ok |-> FALSE, err |-> err, dest |-> dest, paths |-> <<>>, attempts |-> attempts,
     temp |-> "none"]

Extracted(dest, paths, attempts) ==
    [ok |-> TRUE, err |-> "", dest |-> dest, paths |-> paths, attempts |-> attempts,
     temp |-> "none"]

\* File::create(dest_dir.join(file_name)) and io::copy: the file is written,
\* replacing a file of that name; a directory of that name makes create fail
WriteFile(dest, file_name, data) ==
    IF file_name \in DOMAIN dest /\ ~dest[file_name].isFile THEN [ok |-> FALSE, dest |-> dest]
    ELSE [ok |-> TRUE, dest |-> MapPut(dest, file_name, [isFile |-> TRUE, data |-> data])]

\* extract_zip, if !parent.exists() { fs::create_dir_all(parent)? } for the
\* parent of dest_dir.join(entry name): a nested entry leaves its first
\* directory in dest_dir
CreateParent(dest, name) ==
    IF TopComponent(name) = "" THEN [ok |-> TRUE, dest |-> dest]
    ELSE IF TopComponent(name) \notin DOMAIN dest
    THEN [ok |-> TRUE, dest |-> MapPut(dest, TopComponent(name), [isFile |-> FALSE, data |-> 0])]
    ELSE IF dest[TopComponent(name)].isFile THEN [ok |-> FALSE, dest |-> dest]
    ELSE [ok |-> TRUE, dest |-> dest]

\* extract_zip, the file of one entry written once its parent is there
ZipWrite(st, e, made) ==
    IF ~made.ok THEN [st EXCEPT !.ok = FALSE, !.dest = made.dest]
    ELSE IF ~WriteFile(made.dest, BaseName(e.name), e.data).ok
    THEN [st EXCEPT !.ok = FALSE, !.dest = made.dest]
    ELSE [st EXCEPT !.dest = WriteFile(made.dest, BaseName(e.name), e.data).dest,
                    !.paths = Append(@, BaseName(e.name))]

\* extract_zip, the body of the loop for one entry; st is [ok, dest, paths]
ZipStep(st, e) ==
    IF e.isDir THEN st
    ELSE IF LowerExtension(BaseName(e.name)) # "vpk" THEN st
    ELSE ZipWrite(st, e, CreateParent(st.dest, e.name))

RECURSIVE ZipLoop(_, _)
ZipLoop(st, archive) ==
    IF archive = <<>> \/ ~st.ok THEN st
    ELSE ZipLoop(ZipStep(st, Head(archive)), Tail(archive))

ZipResult(st) ==
    IF ~st.ok THEN ExtractFailed("Io", st.dest, <<"zip">>)
    ELSE Extracted(st.dest, st.paths, <<"zip">>)

\* extract.rs extract_zip
ExtractZip(dest, archive) ==
    ZipResult(ZipLoop([ok |-> TRUE, dest |-> dest, paths |-> <<>>], archive))

\* extract_7z, the closure given to decompress_with_extract_fn, for one entry
\* (dest is taken to be the destination directory, as the closure names it)
SevenzStep(st, e) ==
    IF ~EndsWith(ToLowercase(e.name), ".vpk") THEN st
    ELSE IF ~WriteFile(st.dest, BaseName(e.name), e.data).ok THEN [st EXCEPT !.ok = FALSE]
    ELSE [st EXCEPT !.dest = WriteFile(st.dest, BaseName(e.name), e.data).dest]

\* the in-process decompression of extract_7z: the decoder hands the entries
\* to the closure one by one and fails after stop of them (NoneV: never)
RECURSIVE SevenzLoop(_, _, _)
SevenzLoop(st, archive, stop) ==
    IF ~st.ok THEN st
    ELSE IF stop = 0 THEN [st EXCEPT !.ok = FALSE]
    ELSE IF archive = <<>> THEN st
    ELSE SevenzLoop(SevenzStep(st, Head(archive)), Tail(archive),
                    IF stop = NoneV THEN NoneV ELSE stop - 1)

\* run_command: the error text of a tool that could not run or exited with
\* a failure
ToolError(tool) == tool \o " failed to run: No such file or directory"

\* a chain that runs every tool of the list, whatever the earlier ones
\* returned, and reports the outcome of the last
RECURSIVE RunAllTools(_, _, _, _)
RunAllTools(tools, works, attempts, last_err) ==
    IF tools = <<>> THEN [ok |-> FALSE, attempts |-> attempts, last_err |-> last_err]
    ELSE IF works[Head(tools)] /\ Len(tools) = 1
    THEN [ok |-> TRUE, attempts |-> Append(attempts, Head(tools)), last_err |-> last_err]
    ELSE RunAllTools(Tail(tools), works, Append(attempts, Head(tools)),
                     IF works[Head(tools)] THEN last_err ELSE ToolError(Head(tools)))

\* for tool in [..] { match run_command(tool, ..) { Ok(()) => return ..,
\* Err(err) => last_err = Some(err) } }: works[tool] tells whether the tool
\* succeeds; yields the tools run and the last error
RECURSIVE RunChain(_, _, _, _)
RunChain(tools, works, attempts, last_err) ==
    IF tools = <<>> THEN [ok |-> FALSE, attempts |-> attempts, last_err |-> last_err]
    ELSE IF works[Head(tools)]
    THEN [ok |-> TRUE, attempts |-> Append(attempts, Head(tools)), last_err |-> last_err]
    ELSE RunChain(Tail(tools), works, Append(attempts, Head(tools)), ToolError(Head(tools)))

\* collect_vpks over the scratch directory a tool filled: the file entries of
\* the archive whose extension is "vpk", in the order order of the walk
CollectVpks(archive, order) ==
    SelectSeq([i \in 1..Len(order) |-> archive[order[i]]],
              LAMBDA e : ~e.isDir /\ Extension(BaseName(e.name)) = "vpk")

\* extract.rs copy_vpks_to_dest; st is [ok, dest, paths]
RECURSIVE CopyVpksToDest(_, _)
CopyVpksToDest(st, extracted) ==
    IF extracted = <<>> \/ ~st.ok THEN st
    ELSE CopyVpksToDest(
             IF ~WriteFile(st.dest, BaseName(Head(extracted).name), Head(extracted).data).ok
             THEN [st EXCEPT !.ok = FALSE]
             ELSE [st EXCEPT !.dest = WriteFile(@, BaseName(Head(extracted).name),
                                                Head(extracted).data).dest,
                             !.paths = Append(@, BaseName(Head(extracted).name))],
             Tail(extracted))

\* the Ok(()) arm of the tool loops: collect, copy, remove the scratch
\* directory, return the copied paths; a failed copy returns at its "?",
\* before remove_dir_all
CopiedResult(st, attempts) ==
    IF ~st.ok THEN [ExtractFailed("Io", st.dest, attempts) EXCEPT !.temp = "left"]
    ELSE [Extracted(st.dest, st.paths, attempts) EXCEPT !.temp = "removed"]

SEVENZ_MESSAGE == "Failed to extract 7z. Install '7z' (p7zip) or '7za' and try again. Details: "
RAR_MESSAGE == "RAR extraction failed. Install '7z' or 'unrar' and try again. Details: "

\* the fallback of extract_7z and the whole of extract_rar, once the chain of
\* tools returned chain
ChainResult(dest, archive, order, chain, before, message) ==
    IF chain.ok
    THEN CopiedResult(CopyVpksToDest([ok |-> TRUE, dest |-> dest, paths |-> <<>>],
                                     CollectVpks(archive, order)),
                      before \o chain.attempts)
    ELSE [ExtractFailed(message \o chain.last_err, dest, before \o chain.attempts)
              EXCEPT !.temp = "removed"]

\* extract_7z after the in-process decompression returned st: on success the
\* destination directory is scanned for names of extension "vpk", listed in
\* the order scan of read_dir
SevenzResult(st, archive, works, order, scan) ==
    IF st.ok THEN Extracted(st.dest, scan, <<"sevenz_rust">>)
    ELSE ChainResult(st.dest, archive, order,
                     RunChain(<<"7z", "7za">>, works, <<>>, "sevenz_rust error"),
                     <<"sevenz_rust">>, SEVENZ_MESSAGE)

\* the names read_dir(dest_dir) lists with path.extension() == Some("vpk")
ScannedVpks(dest) == {n \in DOMAIN dest : Extension(n) = "vpk"}

\* the in-process decompression of extract_7z
Sevenz(dest, archive, stop) == SevenzLoop([ok |-> TRUE, dest |-> dest], archive, stop)

\* extract.rs extract_7z
Extract7z(dest, archive, stop, works, order, scan) ==
    SevenzResult(Sevenz(dest, archive, stop), archive, works, order, scan)

\* extract.rs extract_rar
ExtractRar(dest, archive, works, order) ==
    ChainResult(dest, archive, order,
                RunChain(<<"7z", "7za", "unrar">>, works, <<>>, ""), <<>>, RAR_MESSAGE)

\* a dispatch on the end of the lowercased name instead of Path::extension
ExtractArchiveBySuffix(archive_path, dest, archive, stop, works, order, scan) ==
    IF EndsWith(ToLowercase(archive_path), ".zip") THEN ExtractZip(dest, archive)
    ELSE IF EndsWith(ToLowercase(archive_path), ".7z")
    THEN Extract7z(dest, archive, stop, works, order, scan)
    ELSE IF EndsWith(ToLowercase(archive_path), ".rar")
    THEN ExtractRar(dest, archive, works, order)
    ELSE ExtractFailed("Unknown archive format", dest, <<>>)

\* extract.rs extract_archive
ExtractArchive(archive_path, dest, archive, stop, works, order, scan) ==
    IF LowerExtension(archive_path) = "zip" THEN ExtractZip(dest, archive)
    ELSE IF LowerExtension(archive_path) = "7z"
    THEN Extract7z(dest, archive, stop, works, order, scan)
    ELSE IF LowerExtension(archive_path) = "rar" THEN ExtractRar(dest, archive, works, order)
    ELSE ExtractFailed("Unknown archive format", dest, <<>>)

\* The archives of the model: up to MaxEntries entries out of a package
\* nested in directories, a package of the same base name at the top, a file
\* that is no package and a directory entry
MaxEntries == 2

NESTED_VPK == "sub/dir/pak05_dir.vpk"
ARCHIVE_NOTES == "docs/notes.txt"
ARCHIVE_DIR == "sub/"

ArchiveEntry(name, isDir, data) == [name |-> name, isDir |-> isDir, data |-> data]

ArchiveEntries ==
    {ArchiveEntry(NESTED_VPK, FALSE, 81), ArchiveEntry(PakFileName(5), FALSE, 82),
     ArchiveEntry(ARCHIVE_NOTES, FALSE, 83), ArchiveEntry(ARCHIVE_DIR, TRUE, 0)}

Archives == UNION {Perms(S) : S \in {T \in SUBSET ArchiveEntries : Cardinality(T) <= MaxEntries}}

\* the archive files by name: one of each format, one of no known format,
\* one without an extension (Path::extension of ".rar" is None)
ArchivePaths == {"mod.zip", "mod.7Z", "mod.rar", "mod.tar", ".rar"}

DecoderTools == {"7z", "7za", "unrar"}

\* the destination directories an extraction starts with: any of two packages
\* may be there already, or a directory that has the name of a package
ExtractDests ==
    {[n \in S |-> File(90 + PakNumber[n])] : S \in SUBSET {PakFileName(5), PakFileName(10)}}
    \cup {PakFileName(5) :> SubDir}

ExtractInit ==
    /\ addons \in ExtractDests
    /\ disabled = NoFiles /\ meta = NoFiles
    /\ fresh = 0 /\ steps = 0 /\ last = Idle

\* the inputs that play a part for the format of archive_path
StopsFor(archive_path, archive) ==
    IF LowerExtension(archive_path) = "7z" THEN {NoneV} \cup (0..Len(archive)) ELSE {NoneV}

WorksFor(archive_path) ==
    IF LowerExtension(archive_path) \in {"7z", "rar"} THEN [DecoderTools -> BOOLEAN]
    ELSE {[t \in DecoderTools |-> FALSE]}

\* the entries a walk of the scratch directory meets, as indices of archive
WalkIndices(archive) == {i \in 1..Len(archive) : ~archive[i].isDir}

Extract ==
    /\ last = Idle /\ steps = 0 /\ steps' = 1
    /\ \E archive_path \in ArchivePaths, archive \in Archives :
       \E stop \in StopsFor(archive_path, archive), works \in WorksFor(archive_path) :
       \E order \in Perms(WalkIndices(archive)) :
       \E scan \in Perms(ScannedVpks(Sevenz(addons, archive, stop).dest)) :
       \E r \in {ExtractArchive(archive_path, addons, archive, stop, works, order, scan)} :
           /\ addons' = r.dest
           /\ last' = [op |-> "extract", before |-> World, archive_path |-> archive_path,
                       archive |-> archive, stop |-> stop, works |-> works,
                       ok |-> r.ok, err |-> r.err, paths |-> r.paths, attempts |-> r.attempts,
                       temp |-> r.temp]
           /\ UNCHANGED <<disabled, meta, fresh>>

ExtractNext ==
    \/ Extract
    \/ Return

SpecExtract == ExtractInit /\ [][ExtractNext]_vars

\* the positions of the entries of archive whose name ends in the package
\* suffix
PackageEntries(archive) ==
    {i \in 1..Len(archive) : ~archive[i].isDir /\ EndsWith(archive[i].name, ".vpk")}

\* the base file names of the package entries
PackageNames(archive) == {BaseName(archive[i].name) : i \in PackageEntries(archive)}

\* the content of the last entry of archive with base name base
LastContent(archive, base) ==
    archive[CHOOSE i \in PackageEntries(archive) :
                /\ BaseName(archive[i].name) = base
                /\ \A j \in PackageEntries(archive) : BaseName(archive[j].name) = base => j <= i].data

\* the result C14 describes of extracting archive into before, yielding the
\* returned paths and the directory after
ExactlyExtracted(archive, before, paths, after) ==
    /\ {paths[i] : i \in 1..Len(paths)} = PackageNames(archive)
    /\ \A base \in PackageNames(archive) :
           base \in DOMAIN after /\ after[base] = File(LastContent(archive, base))
    /\ \A n \in (DOMAIN after \cup DOMAIN before) \ PackageNames(archive) :
           n \in DOMAIN after /\ n \in DOMAIN before /\ after[n] = before[n]

\* C14: a successful extract(archive, dest), of any of the three formats,
\* returns exactly the paths dest/<base name> of the entries whose name ends in
\* the package suffix, each holding the content of the last entry of that
\* base name, and writes nothing else into dest, whatever package files dest
\* held before.
ExtractExact ==
    (last.op = "extract" /\ last.ok)
    => ExactlyExtracted(last.archive, last.before.a, last.paths, addons)

\* a 7z archive of one nested package and one other file was extracted by the
\* in-process decoder into a directory that held another package, and the
\* returned paths name that package too
ExtractReturnedOldSeen ==
    /\ last.op = "extract" /\ last.ok
    /\ last.attempts = <<"sevenz_rust">>
    /\ PackageNames(last.archive) = {PakFileName(5)}
    /\ Len(last.archive) = 2
    /\ PakFileName(10) \in DOMAIN last.before.a
    /\ \E i \in 1..Len(last.paths) : last.paths[i] = PakFileName(10)

\* the external tools of a format, in the order of the code
ToolsOf(archive_path) ==
    IF LowerExtension(archive_path) = "7z" THEN <<"7z", "7za">> ELSE <<"7z", "7za", "unrar">>

\* the tools the error message of a format names
ToolsNamed(archive_path) ==
    IF LowerExtension(archive_path) = "7z" THEN {"'7z'", "'7za'"} ELSE {"'7z'", "'unrar'"}

\* the decoder step worked in the extraction of last: the in-process decoder
\* when it met no error, a tool when it ran and succeeded
StepWorked(step) ==
    IF step = "sevenz_rust" THEN Sevenz(last.before.a, last.archive, last.stop).ok
    ELSE last.works[step]

\* the extraction of last went through chain as C15 describes: the steps were
\* tried in the order of chain, a step only after every earlier one failed;
\* the first step that worked ended the chain with success; the extraction
\* failed if and only if every step failed, with an error that names the
\* tools and ends with the error text of the last tool
ChainFollowed(chain, attempts) ==
    /\ Len(attempts) >= 1
    /\ Len(attempts) <= Len(chain)
    /\ attempts = SubSeq(chain, 1, Len(attempts))
    /\ \A i \in 1..(Len(attempts) - 1) : ~StepWorked(attempts[i])
    /\ last.ok <=> StepWorked(attempts[Len(attempts)])
    /\ ~last.ok => Len(attempts) = Len(chain)
    /\ ~last.ok => /\ \A t \in ToolsNamed(last.archive_path) : Contains(last.err, t)
                   /\ EndsWith(last.err, ToolError(chain[Len(chain)]))

\* C15 as stated: for the 7z and the rar format the in-process decompression
\* is tried first and the external tools only after it failed, one at a time
\* in their order; the first success ends the chain; the extraction fails
\* exactly when every step failed, and the error names the tools and holds
\* the last tool's error text.
ChainPrimaryFirst ==
    (last.op = "extract" /\ LowerExtension(last.archive_path) \in {"7z", "rar"})
    => ChainFollowed(<<"sevenz_rust">> \o ToolsOf(last.archive_path), last.attempts)

\* the extraction of last went through chain as the code does: as C15
\* describes, but the copy of the package files out of the scratch directory
\* may fail after a tool succeeded, and the extraction then fails with the
\* error of the copy
ChainFollowedToCopy(chain, attempts) ==
    /\ Len(attempts) >= 1
    /\ Len(attempts) <= Len(chain)
    /\ attempts = SubSeq(chain, 1, Len(attempts))
    /\ \A i \in 1..(Len(attempts) - 1) : ~StepWorked(attempts[i])
    /\ last.ok <=> (StepWorked(attempts[Len(attempts)]) /\ last.temp # "left")
    /\ last.temp = "left" => (StepWorked(attempts[Len(attempts)]) /\ last.err = "Io")
    /\ (~last.ok /\ last.temp # "left")
           => /\ Len(attempts) = Len(chain)
              /\ ~StepWorked(attempts[Len(attempts)])
              /\ \A t \in ToolsNamed(last.archive_path) : Contains(last.err, t)
              /\ EndsWith(last.err, ToolError(chain[Len(chain)]))

\* the chain of a format in the code: rar has no in-process decoder
ChainOf(archive_path) ==
    IF LowerExtension(archive_path) = "7z" THEN <<"sevenz_rust">> \o ToolsOf(archive_path)
    ELSE ToolsOf(archive_path)

\* C15, amended: the chain of the 7z format is the in-process decompression,
\* then 7z, then 7za; the chain of the rar format is 7z, 7za, unrar with no
\* in-process step.  The steps are tried in that order, each only after the
\* earlier ones failed; the first success ends the chain and the extraction
\* succeeds unless the copy of the package files into the destination fails;
\* otherwise it fails exactly when every step failed, and the error names
\* the tools and holds the last tool's error text.
ChainOrdering ==
    (last.op = "extract" /\ LowerExtension(last.archive_path) \in {"7z", "rar"})
    => ChainFollowedToCopy(ChainOf(last.archive_path), last.attempts)

\* a 7z extraction in which the in-process decoder and the first tool failed
\* and the second tool succeeded, while the third would have worked too
ChainFallbackSeen ==
    /\ last.op = "extract" /\ LowerExtension(last.archive_path) = "7z"
    /\ last.attempts = <<"sevenz_rust", "7z", "7za">>
    /\ last.ok
    /\ last.works["unrar"]

\* ------------------------------------------------------------------------
\* Renames across devices
\* ------------------------------------------------------------------------

\* the result [ok, w] of the pending command had it been issued in the world
\* W with the renames failing as io says
Rerun(l, W, io) ==
    IF l.op = "enable" THEN EnableModCmd(W, l.fault, io, l.id)
    ELSE IF l.op = "disable" THEN DisableModCmd(W, l.fault, io, l.id)
    ELSE IF l.op = "reprioritize" THEN SetModPriorityCmd(W, l.fault, io, l.id, l.arg)
    ELSE CleanupAddons(W, l.fault, io, l.orders[1], l.orders[2], l.orders[3], l.orders[4])

\* the command ended as r says: same outcome, same files in both directories
EndedAs(l, A, B, r) == l.ok = r.ok /\ A = r.w.a /\ B = r.w.d

Relocating == {"enable", "disable", "reprioritize", "cleanup"}

\* C16: when the renames of enable, disable, reprioritize or the normalizer
\* fail with the cross-device error, the command ends as it does when the
\* renames work: every file it moves is at its destination and gone from
\* its source, and no error is returned for the failed rename
CrossDeviceFallback ==
    (last.op \in Relocating /\ last.io = "xdev")
        => EndedAs(last, addons, disabled, Rerun(last, last.before, "none"))

\* an enable of a disabled package returned the error of the rename and left
\* the file in the disabled directory
CrossDeviceErrorSeen ==
    /\ last.op = "enable" /\ last.io = "xdev"
    /\ ~last.ok /\ last.err = "Io"
    /\ Rerun(last, last.before, "none").ok
    /\ addons = last.before.a /\ disabled = last.before.d

\* the normalizer is the one of the four that has the fallback
NormalizerFallback ==
    (last.op = "cleanup" /\ last.io = "xdev")
        => EndedAs(last, addons, disabled, Rerun(last, last.before, "none"))

\* ------------------------------------------------------------------------
\* The normalizer's preset phase
\* ------------------------------------------------------------------------

\* The normalizer over directories that hold the canonical files of a used
\* set (nearly all slots, or a few around the floor), the two files of the
\* variant group under their own names, each in either directory, the
\* companion texture under one of its two names, and possibly a directory
\* with the name of a free slot
PresetFloor == 20

SweepHoles == {0, 22, 23}

SweepSlotSets == {(0..MaxSlot) \ H : H \in SUBSET SweepHoles} \cup SUBSET {20, 21, 22}

PlaceIn(here, name, data) == IF here THEN name :> File(data) ELSE NoFiles

\* a directory that has the name of a slot no file uses
Blocker(used, slot, on) == IF on /\ slot \notin used THEN PakFileName(slot) :> SubDir ELSE NoFiles

\* where such a directory is: nowhere, at the slot of the texture in the
\* directory of the texture, at slot 22 in the active directory
Blockers == {"none", "texture", "preset"}

SweepInit ==
    /\ \E used \in SweepSlotSets, aHere \in BOOLEAN, bHere \in BOOLEAN, blocked \in Blockers,
          texture \in {MINA_TEXTURES, TEXTURES_PAK21} :
           /\ addons = DirWithSlots({k \in used : k % 2 = 0}) @@ PlaceIn(aHere, PRESET_A, 121)
                       @@ PlaceIn(bHere, PRESET_B, 124) @@ Blocker(used, 22, blocked = "preset")
           /\ disabled = DirWithSlots({k \in used : k % 2 = 1}) @@ PlaceIn(~aHere, PRESET_A, 121)
                         @@ PlaceIn(~bHere, PRESET_B, 124) @@ (texture :> File(125))
                         @@ Blocker(used, 21, blocked = "texture")
    /\ meta = (PRESET_A :> Entry("Preset A", 11))
    /\ fresh = 0 /\ steps = 0 /\ last = Idle

SweepNext ==
    \/ Cleanup
    \/ Return

SpecSweep == SweepInit /\ [][SweepNext]_vars

\* the variant-group files of W that are not in slot-naming form, as
\* <<directory, file name>>, the side-table being read as the command reads it
NonConforming(W, fault) ==
    {<<ADDONS, n>> : n \in PresetNames(W.a, LoadMetadata(W, fault).map)}
    \cup {<<DISABLED, n>> : n \in PresetNames(W.d, LoadMetadata(W, fault).map)}

\* the used set when the preset phase starts: the slots of the files the
\* command found, and 21 once the texture phase has given it to a texture
UsedAtPresets(l) ==
    UsedPaks(l.before) \cup (IF l.ret.renamed_mina_textures > 0 THEN {21} ELSE {})

\* the file f of W kept its name and content in V
Kept(W, V, f) ==
    /\ f[2] \in DOMAIN DirOf(V, f[1])
    /\ DirOf(V, f[1])[f[2]] = DirOf(W, f[1])[f[2]]

\* the names of slot-naming form that are new in the directory of f and hold
\* the content of f
GivenNames(W, V, f) ==
    {n \in (DOMAIN DirOf(V, f[1])) \ (DOMAIN DirOf(W, f[1])) :
        /\ PakFile[n]
        /\ n = PakFileName(PakNumber[n])
        /\ DirOf(V, f[1])[n] = File(DirOf(W, f[1])[f[2]].data)}

\* the slot f was given: f is in V in the same directory under the name of
\* that slot and no longer under its own name; NoneV when it kept its name
SlotGiven(W, V, f) ==
    IF f[2] \in DOMAIN DirOf(V, f[1]) \/ GivenNames(W, V, f) = {} THEN NoneV
    ELSE PakNumber[CHOOSE n \in GivenNames(W, V, f) : TRUE]

\* the slots given to the files of N
SlotsGiven(W, V, N) == [f \in N |-> SlotGiven(W, V, f)]

\* slot j is tried before slot k: from the floor upwards, then from 0
TriedBefore(j, k) ==
    \/ j >= PresetFloor /\ k >= PresetFloor /\ j < k
    \/ j >= PresetFloor /\ k < PresetFloor
    \/ j < PresetFloor /\ k < PresetFloor /\ j < k

\* the place of f in the order the preset loops visit the files
Visit(l, f) ==
    IF f[1] = ADDONS THEN CHOOSE i \in 1..Len(l.orders[3]) : l.orders[3][i] = f[2]
    ELSE Len(l.orders[3]) + (CHOOSE i \in 1..Len(l.orders[4]) : l.orders[4][i] = f[2])

\* what C17 says of a successful sweep l of W, N being the files not in
\* slot-naming form, U the used set and given the slots they were given
PresetPhaseJudged(l, W, V, N, U, given) ==
    LET Ren  == {f \in N : given[f] # NoneV}
        Gave == {given[f] : f \in Ren}
    IN  /\ \A f \in N \ Ren : Kept(W, V, f)
        /\ Gave \cap U = {}
        /\ Cardinality(Gave) = Cardinality(Ren)
        /\ \A k \in Gave : \A j \in (0..MaxSlot) \ U : TriedBefore(j, k) => j \in Gave
        /\ \A f \in Ren, g \in Ren :
               Visit(l, f) < Visit(l, g) => TriedBefore(given[f], given[g])
        /\ \A f \in N \ Ren :
               \/ (0..MaxSlot) \subseteq (U \cup Gave)
               \/ \E n \in DOMAIN DirOf(W, f[1]) : PakFile[n] /\ PakNumber[n] \notin U
        /\ l.ret.renamed_mina_presets = Cardinality(Ren)
        /\ l.ret.skipped_mina_presets = Cardinality(N \ Ren)
        /\ l.ret.renamed_mina_presets + l.ret.skipped_mina_presets = Cardinality(N)
        /\ ({20, 21} \subseteq U /\ Cardinality(N) = 2 /\ (22..MaxSlot) \cap U = {}
            /\ \A f \in N : PakFileName(22) \notin DOMAIN DirOf(W, f[1]))
           => Gave = {22, 23}

PresetPhaseHolds(l, W, V) ==
    \E N \in {NonConforming(W, l.fault)} :
    \E given \in {SlotsGiven(W, V, N)} :
        PresetPhaseJudged(l, W, V, N, UsedAtPresets(l), given)

\* C17: after a sweep that succeeded, each variant-group file not in
\* slot-naming form is, in its own directory, under the name of the lowest
\* slot from 20 upwards (below 20 when none is left above) that was not in
\* the used set when its turn came, the used set growing with each rename; a
\* file kept its name only when no slot was left or a destination existed,
\* and is counted as skipped; with slots 20 and 21 used two such files get 22
\* and 23; renamed + skipped is the number of such files.
PresetPhase ==
    (last.op = "cleanup" /\ last.ok)
        => PresetPhaseHolds(last, [last.before EXCEPT !.a = RemoveArchives(@),
                                                      !.d = RemoveArchives(@)], World)

\* slots 20 and 21 were used: the two files of the group got 22 and 23
PresetPhaseExampleSeen ==
    /\ last.op = "cleanup" /\ last.ok
    /\ UsedAtPresets(last) = {20, 21}
    /\ Cardinality(NonConforming(last.before, last.fault)) = 2
    /\ last.ret.renamed_mina_presets = 2 /\ last.ret.skipped_mina_presets = 0
    /\ {SlotGiven(last.before, World, f) : f \in NonConforming(last.before, last.fault)} = {22, 23}

\* a file was counted as skipped because a directory had the name of its slot
PresetSkippedSeen ==
    /\ last.op = "cleanup" /\ last.ok
    /\ last.ret.skipped_mina_presets > 0
    /\ ~((0..MaxSlot) \subseteq UsedAtPresets(last))

\* the preset phase wrapped below the floor
PresetWrapSeen ==
    /\ last.op = "cleanup" /\ last.ok
    /\ \E f \in NonConforming(last.before, last.fault) : SlotGiven(last.before, World, f) = 0

\* ------------------------------------------------------------------------
\* Side-table failures and the lifecycle commands
\* ------------------------------------------------------------------------

\* the result [ok, err, w] of the pending lifecycle command had it been
\* issued in the world W with the side-table failing as fault says
RerunWith(l, W, fault) ==
    IF l.op = "enable" THEN EnableModCmd(W, fault, l.io, l.id)
    ELSE IF l.op = "disable" THEN DisableModCmd(W, fault, l.io, l.id)
    ELSE IF l.op = "reprioritize" THEN SetModPriorityCmd(W, fault, l.io, l.id, l.arg)
    ELSE DeleteModCmd(W, fault, l.denied, l.id, l.order)

Lifecycle == {"enable", "disable", "delete", "reprioritize"}

\* the command ended as r says: the same outcome, the same error, the same
\* entries in both directories
SameOutcome(l, A, B, r) == l.ok = r.ok /\ l.err = r.err /\ A = r.w.a /\ B = r.w.d

\* C18: when the side-table cannot be loaded or cannot be saved, enable,
\* disable, delete and reprioritize change the two directories and succeed
\* or fail exactly as they do with a working side-table.
MetadataNeverBlocks ==
    (last.op \in Lifecycle /\ last.fault # "none")
        => SameOutcome(last, addons, disabled, RerunWith(last, last.before, "none"))

\* a reprioritize renamed the file and succeeded though the side-table could
\* not be loaded; a delete removed the file though it could not be saved
MetadataFailureSeen ==
    \/ /\ last.op = "reprioritize" /\ last.fault = "load" /\ last.ok
       /\ <<addons, disabled>> # <<last.before.a, last.before.d>>
    \/ /\ last.op = "delete" /\ last.fault = "save" /\ last.ok
       /\ <<addons, disabled>> # <<last.before.a, last.before.d>>
       /\ FindMod(last.before, last.id).file_name \in DOMAIN last.before.m

\* ------------------------------------------------------------------------
\* The enabled flag
\* ------------------------------------------------------------------------

\* the flag of record m says where the path of m lies, and the file is there
FlagFromLocation(W, m) ==
    /\ m.path[1] \in {ADDONS, DISABLED}
    /\ m.enabled <=> m.path[1] = ADDONS
    /\ ~m.enabled <=> m.path[1] = DISABLED
    /\ m.path[2] = m.file_name
    /\ PathIsFile(W, m.path)

\* C19: in every record of a scan and in every record returned by enable,
\* disable or reprioritize the enabled flag is true exactly when the path of
\* the record lies directly in the active directory and false exactly when it
\* lies in the disabled directory, where the file then is.
EnabledFromLocation ==
    /\ last.op = "get_mods"
       => \A i \in 1..Len(last.ret) : FlagFromLocation(World, last.ret[i])
    /\ (last.op \in {"enable", "disable", "reprioritize"} /\ last.ok)
       => FlagFromLocation(World, last.ret)

\* a disable moved an enabled package and returned it as disabled, with its
\* path in the disabled directory
DisabledRecordSeen ==
    /\ last.op = "disable" /\ last.ok
    /\ FindMod(last.before, last.id).enabled
    /\ ~last.ret.enabled
    /\ last.ret.path[1] = DISABLED
    /\ last.ret.file_name \in DOMAIN disabled

\* ------------------------------------------------------------------------
\* Two commands running interleaved
\* ------------------------------------------------------------------------

\* Two callers each issue one command, reprioritize or apply_variant.  A
\* command runs in two steps, the other caller's steps falling between them:
\* it looks at the directories (the scan and dest_path.exists() of
\* set_mod_priority, the used set of find_available_pak_number), then it
\* moves its file and finishes.  While the commands run, last holds for each
\* caller how far its command is (pc), what it saw and how it ended.
Callers == {1, 2}

NotStarted == [pc |-> "start"]

\* the priorities the racing reprioritize requests carry
RacePriorities == {7, 20}

RaceInit ==
    /\ addons = (PakFileName(5) :> File(1)) @@ (PakFileName(10) :> File(2))
                @@ (README :> File(4)) @@ (SUB_VPK :> SubDir)
    /\ disabled = (PakFileName(7) :> File(5))
    /\ meta = (PakFileName(5) :> Entry("Alpha", 11))
    /\ fresh = 0 /\ steps = 0
    /\ last = [op |-> "race", call |-> [p \in Callers |-> NotStarted]]

\* the path set_mod_priority computes for the renamed file
PriorityDest(target_mod, new_priority) ==
    <<target_mod.path[1], PakFileName(Min(new_priority, 99))>>

\* mods.rs set_mod_priority up to its check of the destination: what the
\* call holds when it goes on to the rename, or how it ended
PriorityObserved(W, mod_id, new_priority) ==
    IF ~HasMod(W, mod_id)
    THEN [pc |-> "done", kind |-> "reprioritize", ok |-> FALSE, err |-> "ModNotFound",
          collided |-> FALSE]
    ELSE IF /\ PathExists(W, PriorityDest(FindMod(W, mod_id), new_priority))
            /\ PriorityDest(FindMod(W, mod_id), new_priority) # FindMod(W, mod_id).path
    THEN [pc |-> "done", kind |-> "reprioritize", ok |-> FALSE, err |-> "PriorityInUse",
          collided |-> FALSE]
    ELSE [pc |-> "observed", kind |-> "reprioritize", target_mod |-> FindMod(W, mod_id),
          arg |-> new_priority, dest |-> PriorityDest(FindMod(W, mod_id), new_priority),
          free |-> ~PathExists(W, PriorityDest(FindMod(W, mod_id), new_priority))]

\* mods.rs set_mod_priority from fs::rename on, for the target and the
\* destination it determined before
RenameTarget(W, io, target_mod, new_priority) ==
    LET dest_path == PriorityDest(target_mod, new_priority)
        r         == FsRenameIo(W, io, target_mod.path, dest_path)
    IN  IF ~r.ok THEN Failed("Io", W)
        ELSE Succeeded([target_mod EXCEPT !.priority = new_priority,
                                          !.file_name = dest_path[2],
                                          !.path = dest_path], r.w)

\* what a call that has moved its file holds: collided says that a file was
\* at the destination it had seen free, found is that file
Finished(c, W, r) ==
    [pc |-> "done", kind |-> c.kind, ok |-> r.ok, err |-> r.err, dest |-> c.dest,
     collided |-> c.free /\ PathExists(W, c.dest),
     found |-> IF PathExists(W, c.dest) THEN DirOf(W, c.dest[1])[c.dest[2]] ELSE SubDir]

SetCall(p, c) == last' = [last EXCEPT !.call[p] = c]

\* set_mod_priority_cmd: the scan, the search of the target, the check
ObservePriority ==
    \E p \in Callers, id \in TargetIds, priority \in RacePriorities :
        /\ last.call[p].pc = "start"
        /\ SetCall(p, PriorityObserved(World, id, priority))
        /\ UNCHANGED <<addons, disabled, meta, fresh, steps>>

\* set_mod_priority_cmd: the rename, the side-table key, the record
RenamePriority ==
    \E p \in Callers :
        /\ last.call[p].pc = "observed"
        /\ last.call[p].kind = "reprioritize"
        /\ \E c \in {last.call[p]} :
           \E r \in {FollowRename(RenameTarget(World, "none", c.target_mod, c.arg), "none",
                                  c.target_mod.file_name)} :
               /\ Commit(r.w)
               /\ SetCall(p, Finished(c, World, r))
        /\ UNCHANGED <<fresh, steps>>

\* apply_mina_variant: the entry is extracted, the allocator answers
ObserveSlot ==
    \E p \in Callers, entry \in VariantEntries :
        /\ last.call[p].pc = "start"
        /\ SetCall(p, [pc |-> "observed", kind |-> "apply_variant",
                       pak_number |-> FindAvailablePakNumber(PreferredPak(entry), World),
                       dest |-> <<ADDONS, PakFileName(FindAvailablePakNumber(PreferredPak(entry), World))>>,
                       free |-> ~PathExists(World, <<ADDONS, PakFileName(FindAvailablePakNumber(PreferredPak(entry), World))>>)])
        /\ UNCHANGED <<addons, disabled, meta, fresh, steps>>

\* apply_mina_variant: the file is placed, the group swapped
PlaceSlot ==
    \E p \in Callers :
        /\ last.call[p].pc = "observed"
        /\ last.call[p].kind = "apply_variant"
        /\ \E c \in {last.call[p]} :
           \E pl \in {PlaceAt(World, "none", c.pak_number, "Red", NoneV, 100 + p)} :
           \E orderA \in Perms(MinaNames(pl.w.a, pl.metadata_map)) :
           \E orderD \in Perms(MinaNames(pl.w.d, pl.metadata_map)) :
           \E r \in {ApplyPlaced(World, "none", "none", pl, "Red", NoneV, orderA, orderD)} :
               /\ Commit(r.w)
               /\ SetCall(p, Finished(c, World, r))
        /\ UNCHANGED <<fresh, steps>>

RaceNext ==
    \/ ObservePriority
    \/ RenamePriority
    \/ ObserveSlot
    \/ PlaceSlot

SpecRace == RaceInit /\ [][RaceNext]_vars

\* the call c found a file at the destination it had seen free
Collided(c) == c.pc = "done" /\ c.collided

\* C20: when two interleaved lifecycle operations saw the same file name as
\* free, the one that moves its file later fails with an error returned to
\* its caller, and the file the other one placed there is still in place.
RaceSurfaced ==
    last.op = "race" =>
        \A p \in Callers :
            Collided(last.call[p])
                => /\ ~last.call[p].ok
                   /\ PathExists(World, last.call[p].dest)
                   /\ DirOf(World, last.call[p].dest[1])[last.call[p].dest[2]] = last.call[p].found

\* both calls succeeded, the later one replaced the file of the earlier one:
\* one package is gone from both directories
RaceLostFileSeen ==
    /\ last.op = "race"
    /\ \A p \in Callers : last.call[p].pc = "done" /\ last.call[p].ok
    /\ \E p \in Callers :
           /\ Collided(last.call[p])
           /\ last.call[p].kind = "reprioritize"
           /\ \A n \in DOMAIN addons : addons[n] # last.call[p].found
           /\ \A n \in DOMAIN disabled : disabled[n] # last.call[p].found

\* two calls for the same package: the later rename finds its source gone
\* and returns the error
RaceSourceGoneSeen ==
    /\ last.op = "race"
    /\ \E p \in Callers :
           Collided(last.call[p]) /\ ~last.call[p].ok /\ last.call[p].err = "Io"

\* ------------------------------------------------------------------------
\* The normalizer and collisions
\* ------------------------------------------------------------------------

\* the companion texture files of W that are not at their canonical name
StrayTextures(W) ==
    {<<ADDONS, n>> : n \in TextureNames(W.a) \ {PakFileName(21)}}
    \cup {<<DISABLED, n>> : n \in TextureNames(W.d) \ {PakFileName(21)}}

\* C21: a sweep whose renames meet no error of the operating system other
\* than a taken destination returns success with the counts: each texture
\* and each variant-group file is renamed or counted as skipped, a collision
\* on one of them ends nothing.
SweepNonFatal ==
    (last.op = "cleanup" /\ last.io = "none")
        => /\ last.ok
           /\ last.ret.renamed_mina_textures + last.ret.skipped_mina_textures
                  = Cardinality(StrayTextures(last.before))
           /\ last.ret.renamed_mina_presets + last.ret.skipped_mina_presets
                  = Cardinality(NonConforming(last.before, last.fault))

\* the canonical name of the texture was taken by a directory in the
\* directory of the texture: the sweep ended with the error of the rename
\* and left the variant-group files unnamed
SweepAbortedSeen ==
    /\ last.op = "cleanup" /\ last.io = "none"
    /\ ~last.ok
    /\ PathExists(last.before, <<DISABLED, PakFileName(21)>>)
    /\ ~PathIsFile(last.before, <<DISABLED, PakFileName(21)>>)
    /\ PRESET_A \in DOMAIN addons \cup DOMAIN disabled

\* without such a directory the sweep is non-fatal
SweepNonFatalAmongFiles ==
    (last.op = "cleanup" /\ last.io = "none"
     /\ \A n \in DOMAIN last.before.d : last.before.d[n].isFile)
        => last.ok

\* ------------------------------------------------------------------------
\* Extraction: the dispatch and the scratch directory
\* ------------------------------------------------------------------------

SupportedFormats == {"zip", "7z", "rar"}

\* C22: an archive path whose extension is none of zip, 7z, rar makes the
\* extraction fail at the dispatch with the error of the unknown format: no
\* decoder was tried, no scratch directory created, the destination
\* directory is as it was, no path is returned.
UnsupportedRejected ==
    (last.op = "extract" /\ LowerExtension(last.archive_path) \notin SupportedFormats)
        => /\ ~last.ok
           /\ last.err = "Unknown archive format"
           /\ last.attempts = <<>>
           /\ last.temp = "none"
           /\ last.paths = <<>>
           /\ addons = last.before.a

\* an archive named ".rar", which has no extension, holding a package, with
\* every tool at hand, was rejected
UnsupportedSeen ==
    /\ last.op = "extract" /\ last.archive_path = ".rar"
    /\ ~last.ok
    /\ last.archive # <<>>
    /\ addons = last.before.a

\* C25: when an extraction that created the scratch directory returns, with
\* success or with an error, the scratch directory is removed, and every
\* returned path names a file of the destination directory.
ScratchRemoved ==
    (last.op = "extract" /\ last.temp # "none")
        => /\ last.temp = "removed"
           /\ \A i \in 1..Len(last.paths) :
                  last.paths[i] \in DOMAIN addons /\ addons[last.paths[i]].isFile

\* a tool filled the scratch directory, the copy of a package onto a
\* directory of the destination failed: the extraction returned the error
\* and left the scratch directory
ScratchLeftSeen ==
    /\ last.op = "extract"
    /\ ~last.ok /\ last.err = "Io"
    /\ last.temp = "left"
    /\ \E t \in DecoderTools : last.works[t]

\* the scratch directory is removed whenever the copy did not fail
ScratchRemovedUnlessCopyFails ==
    (last.op = "extract" /\ last.temp # "none" /\ (last.ok \/ last.err # "Io"))
        => last.temp = "removed"

\* ------------------------------------------------------------------------
\* The normalizer's texture phase
\* ------------------------------------------------------------------------

\* the regular files of W other than f that claim slot 21: those for which
\* parse_pak_number answers 21
OthersAt21(W, f) ==
    ({<<ADDONS, n>> : n \in {x \in DOMAIN W.a : W.a[x].isFile /\ PakNumber[x] = 21}}
     \cup {<<DISABLED, n>> : n \in {x \in DOMAIN W.d : W.d[x].isFile /\ PakNumber[x] = 21}})
    \ {f}

\* the texture f of W is in V under the canonical name in its own directory,
\* no longer under its own name, and its side-table entry went with it
TextureRenamed(W, V, f) ==
    /\ f[2] \notin DOMAIN DirOf(V, f[1])
    /\ PakFileName(21) \in DOMAIN DirOf(V, f[1])
    /\ DirOf(V, f[1])[PakFileName(21)] = DirOf(W, f[1])[f[2]]
    /\ f[2] \in DOMAIN W.m => (/\ f[2] \notin DOMAIN V.m
                                /\ PakFileName(21) \in DOMAIN V.m
                                /\ V.m[PakFileName(21)] = W.m[f[2]])

\* what C23 says of a successful sweep l that took W to V
TexturePhaseHolds(l, W, V) ==
    LET T   == StrayTextures(W)
        Ren == {f \in T : TextureRenamed(W, V, f)}
    IN  /\ \A f \in T \ Ren : Kept(W, V, f)
        /\ \A f \in T \ Ren : OthersAt21(W, f) # {} \/ Ren \ {f} # {}
        /\ \A f \in T : OthersAt21(W, f) = {} /\ T = {f} => f \in Ren
        /\ \A f \in Ren : OthersAt21(W, f) = {}
        /\ l.ret.renamed_mina_textures = Cardinality(Ren)
        /\ l.ret.skipped_mina_textures = Cardinality(T \ Ren)

\* C23: after a sweep that succeeded with a working side-table, every
\* companion texture not named pak21_dir.vpk is under that name in its own
\* directory, with its side-table key, unless another file claimed slot 21:
\* then it is where it was and counted as skipped.  A texture is renamed
\* whenever no other file of either directory claims slot 21.
TexturePhase ==
    (last.op = "cleanup" /\ last.ok /\ last.fault = "none")
        => TexturePhaseHolds(last, [last.before EXCEPT !.a = RemoveArchives(@),
                                                       !.d = RemoveArchives(@)], World)

\* the texture textures-pak21_dir.vpk was alone at slot 21 and was counted as
\* skipped: the slot it claims itself was taken for occupied
TextureSelfBlockedSeen ==
    /\ last.op = "cleanup" /\ last.ok /\ last.fault = "none"
    /\ TEXTURES_PAK21 \in DOMAIN last.before.d
    /\ OthersAt21(last.before, <<DISABLED, TEXTURES_PAK21>>) = {}
    /\ TEXTURES_PAK21 \in DOMAIN disabled
    /\ last.ret.skipped_mina_textures = 1 /\ last.ret.renamed_mina_textures = 0

\* for textures whose name holds no slot number the phase is as C23 says
TexturePhaseUnnumbered ==
    (last.op = "cleanup" /\ last.ok /\ last.fault = "none"
     /\ \A f \in StrayTextures(last.before) : PakNumber[f[2]] = NoneV)
        => TexturePhaseHolds(last, [last.before EXCEPT !.a = RemoveArchives(@),
                                                       !.d = RemoveArchives(@)], World)

\* a texture was renamed to pak21_dir.vpk and its side-table key with it
TextureRenamedSeen ==
    /\ last.op = "cleanup" /\ last.ok /\ last.fault = "none"
    /\ last.ret.renamed_mina_textures = 1
    /\ MINA_TEXTURES \in DOMAIN last.before.d
    /\ PakFileName(21) \in DOMAIN disabled

\* ------------------------------------------------------------------------
\* The normalizer and leftover archives
\* ------------------------------------------------------------------------

\* the regular files of a directory whose extension, lowercased, is that of
\* a container format
LeftoverArchives(entries) ==
    {n \in DOMAIN entries : entries[n].isFile /\ LowerExtension(n) \in SupportedFormats}

\* the regular files of a directory with the package extension
PackageFiles(entries) ==
    {n \in DOMAIN entries : entries[n].isFile /\ EndsWith(ToLowercase(n), ".vpk")}

\* every package file of directory old is in directory new, under some name
PackagesKept(old, new) ==
    \A n \in PackageFiles(old) : \E x \in PackageFiles(new) : new[x] = old[n]

\* C24: after a sweep that succeeded neither directory holds a regular file
\* with the extension zip, 7z or rar in any case, removed_archives is the
\* number of such files before the sweep, and every package file of before
\* is still in its directory.
ArchivesRemoved ==
    (last.op = "cleanup" /\ last.ok)
        => /\ LeftoverArchives(addons) = {}
           /\ LeftoverArchives(disabled) = {}
           /\ last.ret.removed_archives
                  = Cardinality(LeftoverArchives(last.before.a))
                    + Cardinality(LeftoverArchives(last.before.d))
           /\ PackagesKept(last.before.a, addons)
           /\ PackagesKept(last.before.d, disabled)

\* the sweep removed old.Zip, and renamed packages next to it
ArchiveRemovedSeen ==
    /\ last.op = "cleanup" /\ last.ok
    /\ OLD_ZIP \in DOMAIN last.before.a
    /\ OLD_ZIP \notin DOMAIN addons
    /\ last.ret.removed_archives = 1
    /\ last.ret.renamed_mina_presets > 0

\* ------------------------------------------------------------------------
\* Targets that do not exist
\* ------------------------------------------------------------------------

\* the regular files of both directories that set_mina_preset recognises as
\* variant files, the side-table being read as the command reads it
RecognisedVariants(W, fault) ==
    {n \in DOMAIN W.a : W.a[n].isFile /\ CollectMinaKind(n, LoadMetadata(W, fault).map) = "preset"}
    \cup {n \in DOMAIN W.d : W.d[n].isFile /\ CollectMinaKind(n, LoadMetadata(W, fault).map) = "preset"}

\* the command returned the not-found error and left the world as it was
RefusedAsNotFound(l, W, V) ==
    /\ ~l.ok
    /\ l.err = "ModNotFound"
    /\ V = W

\* C26: enable, disable, delete and reprioritize with an identity that no
\* package of the scan has, and set_mina_preset with a name that is not a
\* recognised variant file, return the not-found error; no file of either
\* directory and no side-table entry is changed.
TargetNotFound ==
    /\ (last.op \in Lifecycle /\ ~HasMod(last.before, last.id))
           => RefusedAsNotFound(last, last.before, World)
    /\ (last.op = "set_mina_preset"
        /\ last.arg \notin RecognisedVariants(last.before, last.fault))
           => RefusedAsNotFound(last, last.before, World)

\* set_mina_preset was given the name of the companion texture while a
\* variant was enabled, and refused
PresetNotFoundSeen ==
    /\ last.op = "set_mina_preset"
    /\ last.arg = MINA_TEXTURES
    /\ PRESET_A \in DOMAIN last.before.a
    /\ ~last.ok /\ last.err = "ModNotFound"
    /\ World = last.before

\* a delete of an identity no package has was refused
DeleteNotFoundSeen ==
    /\ last.op = "delete"
    /\ last.id = GenerateModId(<<ADDONS, GHOST_VPK>>)
    /\ ~last.ok /\ last.err = "ModNotFound"
    /\ World = last.before

\* ------------------------------------------------------------------------
\* The priority of a scanned file
\* ------------------------------------------------------------------------

\* File names of every shape around the two-character field: with and
\* without the "pak" prefix, with digits, a sign, a separator, a letter or a
\* character outside ASCII in the field, with and without the package suffix
ScanPrefixes == {"pak", "Pak", "x"}

ScanFieldChars == {"0", "1", "9", "+", "_", "a", "é"}

ScanSuffixes == {"_dir.vpk", ".vpk", "_dir.vpk.txt"}

ScanNames ==
    {p \o c1 \o c2 \o x : p \in ScanPrefixes, c1 \in ScanFieldChars,
                          c2 \in ScanFieldChars, x \in ScanSuffixes}

\* the active directory holds one file of one of these names
ScanNameInit ==
    /\ \E name \in ScanNames : addons = (name :> File(1))
    /\ disabled = NoFiles /\ meta = NoFiles
    /\ fresh = 0 /\ steps = 0 /\ last = Idle

\* mods.rs scan_folder over that directory: the file is skipped, or the
\* parser panics and the scan ends without a result, or a record with the
\* parsed or the default priority is pushed
ScanFolderNamed ==
    /\ last = Idle
    /\ \E name \in DOMAIN addons :
           \E parsed \in {ParseVpkPriority(name)} :
               last' = [op        |-> "scan_folder",
                        file_name |-> name,
                        scanned   |-> IsScanned(addons, name),
                        panicked  |-> IsScanned(addons, name) /\ parsed = PanicV,
                        priority  |-> IF ~IsScanned(addons, name) \/ parsed = PanicV
                                      THEN NoneV
                                      ELSE UnwrapOr(parsed, DefaultPriority)]
    /\ UNCHANGED <<addons, disabled, meta, fresh, steps>>

ScanNameNext ==
    \/ ScanFolderNamed
    \/ Return

SpecScanName == ScanNameInit /\ [][ScanNameNext]_vars

\* the file name has the form pak<NN>..._dir.vpk, NN two decimal digits
HasPakField(name) ==
    /\ StartsWith(name, "pak")
    /\ EndsWith(name, "_dir.vpk")
    /\ IsAsciiDigit(CharAt(name, 4))
    /\ IsAsciiDigit(CharAt(name, 5))

\* C27: every scanned file gets a record whose priority lies in 0..99; the
\* priority is the two-digit number after "pak" when the name has the form
\* pak<NN>..._dir.vpk, and the default 50 for every other package file name;
\* no name aborts the scan.
ScanPriority ==
    (last.op = "scan_folder" /\ last.scanned)
        => /\ ~last.panicked
           /\ last.priority \in 0..99
           /\ HasPakField(last.file_name)
                  => last.priority = DigitsValue(SubSeq(last.file_name, 4, 5))
           /\ ~HasPakField(last.file_name)
                  => last.priority = DefaultPriority

\* a name whose fifth byte lies inside a two-byte character ended the scan
\* with a panic
ScanPanicSeen ==
    /\ last.op = "scan_folder"
    /\ last.file_name = "pak1é_dir.vpk"
    /\ last.scanned
    /\ last.panicked

\* a signed digit in the field was taken as the priority
ScanSignedSeen ==
    /\ last.op = "scan_folder"
    /\ last.file_name = "pak+9_dir.vpk"
    /\ last.scanned /\ ~last.panicked
    /\ last.priority = 9

\* For names of ASCII characters whose field does not start with a sign the
\* priority is as stated, and every priority a scan assigns lies in 0..99.
ScanPriorityPlainNames ==
    (last.op = "scan_folder" /\ last.scanned)
        => /\ ~last.panicked => last.priority \in 0..99
           /\ (/\ \A i \in 1..Len(last.file_name) : CharAt(last.file_name, i) \notin WideChars
               /\ CharAt(last.file_name, 4) # "+")
                  => /\ ~last.panicked
                     /\ HasPakField(last.file_name)
                            => last.priority = DigitsValue(SubSeq(last.file_name, 4, 5))
                     /\ ~HasPakField(last.file_name)
                            => last.priority = DefaultPriority

\* ------------------------------------------------------------------------
\* The identity of a record
\* ------------------------------------------------------------------------

\* the commands that return the record of the package they moved or renamed
Returning == {"enable", "disable", "reprioritize"}

\* the identity of the record is the hash of the record's own path, and the
\* scan of world W gives the file at that path the same identity
IdentityOfPath(W, m) ==
    /\ m.id = GenerateModId(m.path)
    /\ \E n \in ScanSet(W) : n.path = m.path /\ n.id = m.id

\* C28: in every record of a scan and in every record that enable, disable
\* or reprioritize returns, the identity is the hash of the record's own
\* path: the identity the next scan gives the same file, so that it names
\* the target of the next command.
RecordIdentity ==
    /\ last.op = "get_mods"
           => \A i \in DOMAIN last.ret : IdentityOfPath(World, last.ret[i])
    /\ (last.op \in Returning /\ last.ok)
           => /\ IdentityOfPath(World, last.ret)
              /\ HasMod(World, last.ret.id)

\* enable moved pak07_dir.vpk into the active directory and returned a record
\* that has the new path and the identity of the old one, which no package
\* of the next scan has
StaleIdentitySeen ==
    /\ last.op = "enable" /\ last.ok
    /\ last.id = GenerateModId(<<DISABLED, PakFileName(7)>>)
    /\ last.ret.path = <<ADDONS, PakFileName(7)>>
    /\ last.ret.id = last.id
    /\ ~HasMod(World, last.ret.id)

\* The records of a scan carry the hash of their path, and so does a returned
\* record whose file stayed where it was; a record returned after a move or
\* a rename carries the identity the caller passed in.
RecordIdentityUnlessMoved ==
    /\ last.op = "get_mods"
           => \A i \in DOMAIN last.ret : IdentityOfPath(World, last.ret[i])
    /\ (last.op \in Returning /\ last.ok)
           => /\ last.ret.id = last.id
              /\ last.ret.path = FindMod(last.before, last.id).path
                     => IdentityOfPath(World, last.ret)

\* ------------------------------------------------------------------------
\* Where a new variant is installed
\* ------------------------------------------------------------------------

\* the slot apply_mina_variant is to use in world W for an archive entry:
\* the allocator's answer for the number parsed from the entry's file name,
\* or for 20 when none can be parsed
VariantSlot(W, entry_name) ==
    FindAvailable(IF PakNumber[entry_name] = NoneV THEN 20 ELSE PakNumber[entry_name],
                  UsedPaks(W))

\* the contents of the package files of both directories of W
PackageContents(W) ==
    {W.a[n].data : n \in PackageFiles(W.a)} \cup {W.d[n].data : n \in PackageFiles(W.d)}

\* a file that no directory of W held is at the canonical name of slot nn of
\* the active directory of V, where W had nothing to replace or remove
InstalledAt(W, V, nn) ==
    /\ nn \in 0..MaxSlot
    /\ PakFileName(nn) \notin DOMAIN W.a
    /\ PakFileName(nn) \in DOMAIN V.a
    /\ V.a[PakFileName(nn)].isFile
    /\ V.a[PakFileName(nn)].data \notin PackageContents(W)

\* the side-table entry of the file at slot nn carries the variant marker
MarkedAt(V, nn) ==
    /\ PakFileName(nn) \in DOMAIN V.m
    /\ StartsWith(V.m[PakFileName(nn)].name, MinaMarker)

\* C29: apply_variant installs the new file in the active directory as
\* pak<NN>_dir.vpk, NN being find_available(preferred, slots used in both
\* directories) and preferred the number parsed from the entry's file name,
\* or 20; no package file that existed before is replaced or removed, and
\* the file's side-table entry has a name that starts with the marker.
VariantDestinationMarked ==
    (last.op = "apply_variant" /\ last.ok)
        => /\ InstalledAt(last.before, World, VariantSlot(last.before, last.arg))
           /\ MarkedAt(World, VariantSlot(last.before, last.arg))

\* C29, amended: as above, the entry carrying the marker whenever the
\* side-table could be loaded and stored; a failure of either is ignored and
\* leaves the side-table as it was.
VariantDestination ==
    (last.op = "apply_variant" /\ last.ok)
        => /\ InstalledAt(last.before, World, VariantSlot(last.before, last.arg))
           /\ last.fault = "none" => MarkedAt(World, VariantSlot(last.before, last.arg))
           /\ last.fault # "none" => meta = last.before.m

\* an entry without a number was installed at a slot above 20, slot 20
\* being taken
VariantInstalledSeen ==
    /\ last.op = "apply_variant" /\ last.ok
    /\ last.arg = RED_VPK
    /\ 20 \in UsedPaks(last.before)
    /\ VariantSlot(last.before, last.arg) > 20
    /\ InstalledAt(last.before, World, VariantSlot(last.before, last.arg))
    /\ MarkedAt(World, VariantSlot(last.before, last.arg))

\* the store of the side-table failed and the slot of the new file kept the
\* entry of a file that is gone
VariantStaleEntrySeen ==
    /\ last.op = "apply_variant" /\ last.ok
    /\ last.fault = "save"
    /\ InstalledAt(last.before, World, VariantSlot(last.before, last.arg))
    /\ PakFileName(VariantSlot(last.before, last.arg)) \in DOMAIN meta
    /\ ~MarkedAt(World, VariantSlot(last.before, last.arg))

\* ------------------------------------------------------------------------
\* The order of a delete
\* ------------------------------------------------------------------------

\* the siblings of package t in world W: the other entries of its directory
\* that the loop of delete_mod removes
Siblings(W, t) ==
    {n \in DOMAIN DirOf(W, t.path[1]) \ {t.file_name} :
         StartsWith(n, TrimEndMatches(t.file_name, "_dir.vpk")) /\ EndsWith(n, ".vpk")}

\* delete of package t, started in world W with the side-table failing as
\* fault says and the removal of the file named denied refused, ended in
\* world V with outcome l
DeletedInOrder(l, W, V, t) ==
    \* the side-table entry goes first: it is gone even when a removal of a
    \* file fails afterwards; a failure of the side-table changes nothing else
    /\ l.fault = "none" => t.file_name \notin DOMAIN V.m
    /\ l.fault # "none" => V.m = W.m
    \* the primary file is next: when its removal fails the error is returned
    \* and both directories are as they were, siblings included
    /\ l.denied = t.file_name
           => /\ ~l.ok /\ l.err = "Io"
              /\ V.a = W.a /\ V.d = W.d
    \* the siblings are last: the primary file is gone whenever its removal
    \* did not fail, whatever happens to a sibling
    /\ l.denied # t.file_name => ~PathExists(V, t.path)
    /\ l.ok => \A n \in Siblings(W, t) : ~PathExists(V, <<t.path[1], n>>)
    /\ (l.denied \notin Siblings(W, t) \cup {t.file_name}
        /\ \A n \in Siblings(W, t) : PathIsFile(W, <<t.path[1], n>>))
           => l.ok

\* C30: delete(id) removes the side-table entry of the package before the
\* primary file and the primary file before any sibling; a failure of the
\* removal of the entry is ignored, a failure of the removal of the primary
\* file is returned with no sibling removed.
DeleteOrdering ==
    (last.op = "delete" /\ HasMod(last.before, last.id))
        => DeletedInOrder(last, last.before, World, FindMod(last.before, last.id))

\* the removal of pak05_dir.vpk was refused: the error was returned, the
\* file is still there and its side-table entry is already gone
DeletePrimaryRefusedSeen ==
    /\ last.op = "delete"
    /\ last.id = GenerateModId(<<ADDONS, PakFileName(5)>>)
    /\ last.denied = PakFileName(5)
    /\ last.fault = "none"
    /\ PakFileName(5) \in DOMAIN last.before.m
    /\ ~last.ok
    /\ PakFileName(5) \in DOMAIN addons
    /\ PakFileName(5) \notin DOMAIN meta

\* the removal of pak21_dir.vpk was refused and its part file was left
DeleteSiblingKeptSeen ==
    /\ last.op = "delete"
    /\ last.id = GenerateModId(<<ADDONS, PakFileName(21)>>)
    /\ last.denied = PakFileName(21)
    /\ ~last.ok
    /\ SIBLING_21 \in DOMAIN addons
    /\ PakFileName(21) \in DOMAIN addons

\* the removal of the part file was refused after pak21_dir.vpk was removed
DeleteSiblingRefusedSeen ==
    /\ last.op = "delete"
    /\ last.id = GenerateModId(<<ADDONS, PakFileName(21)>>)
    /\ last.denied = SIBLING_21
    /\ ~last.ok
    /\ SIBLING_21 \in DOMAIN addons
    /\ PakFileName(21) \notin DOMAIN addons

\* the side-table could not be stored and the delete went through
DeleteMetadataIgnoredSeen ==
    /\ last.op = "delete"
    /\ last.id = GenerateModId(<<ADDONS, PakFileName(5)>>)
    /\ last.fault = "save"
    /\ last.denied = "none"
    /\ last.ok
    /\ PakFileName(5) \notin DOMAIN addons
    /\ PakFileName(5) \in DOMAIN meta

\* ------------------------------------------------------------------------
\* The side-table's upsert
\* ------------------------------------------------------------------------

\* C31: after upsert_for_files(paths, entry) the persisted side-table maps
\* the base name of every given path to the given entry, every other key
\* keeps the entry it had, no key is added besides; when the side-table file
\* did not exist the keys are exactly the base names of the given paths.
UpsertPostcondition ==
    (last.op = "upsert" /\ last.ok)
        => /\ \A path \in last.paths :
                  path[2] \in DOMAIN meta /\ meta[path[2]] = last.entry
           /\ \A k \in DOMAIN last.before.m \ FileNamesOf(last.paths) :
                  k \in DOMAIN meta /\ meta[k] = last.before.m[k]
           /\ DOMAIN meta = DOMAIN last.before.m \cup FileNamesOf(last.paths)
           /\ last.absent => DOMAIN meta = FileNamesOf(last.paths)

\* an upsert for the same file name in both directories overwrote the entry
\* of pak05_dir.vpk, added one for red.vpk and kept the entry of pak07_dir.vpk
UpsertOverwriteSeen ==
    /\ last.op = "upsert" /\ last.ok
    /\ last.paths = {<<ADDONS, PakFileName(5)>>, <<DISABLED, PakFileName(5)>>, <<ADDONS, RED_VPK>>}
    /\ PakFileName(5) \in DOMAIN last.before.m
    /\ last.before.m[PakFileName(5)] # last.entry
    /\ PakFileName(7) \in DOMAIN last.before.m
    /\ meta[PakFileName(5)] = last.entry
    /\ meta[RED_VPK] = last.entry
    /\ meta[PakFileName(7)] = last.before.m[PakFileName(7)]

\* an upsert created the side-table file
UpsertCreatedSeen ==
    /\ last.op = "upsert" /\ last.ok /\ last.absent
    /\ last.paths = {<<ADDONS, RED_VPK>>}
    /\ DOMAIN meta = {RED_VPK}

\* ------------------------------------------------------------------------
\* Side-table helpers running interleaved
\* ------------------------------------------------------------------------

\* The mutations two callers make: the upsert of an install, the rename_key
\* of a reprioritize and the sweep's renamed key, saved when the sweep ends
MetaMutations ==
    {[kind |-> "upsert", from |-> RED_VPK, to |-> RED_VPK, entry |-> Entry("Beta", 12)],
     [kind |-> "upsert", from |-> PakFileName(7), to |-> PakFileName(7), entry |-> Entry("Beta", 12)],
     [kind |-> "rename_key", from |-> PakFileName(5), to |-> PakFileName(7), entry |-> NoInfo],
     [kind |-> "sweep", from |-> PRESET_A, to |-> PakFileName(20), entry |-> NoInfo]}

MetaRaceInit ==
    /\ addons = NoFiles /\ disabled = NoFiles
    /\ meta \in MetaMaps
    /\ fresh = 0 /\ steps = 0
    /\ last = [op |-> "meta_race", call |-> [p \in Callers |-> NotStarted]]

\* whether the helper writes the file, given the map it loaded:
\* upsert_metadata_for_files and cleanup_addons always do, rename_metadata_key
\* only when it found the key
Saves(mut, map) == mut.kind # "rename_key" \/ mut.from \in DOMAIN map

\* the map the helper writes, given the map it loaded
Mutated(mut, map) ==
    IF mut.kind = "upsert"
    THEN UpsertMetadataForFiles([a |-> NoFiles, d |-> NoFiles, m |-> map], "none",
                                {mut.to}, mut.entry).w.m
    ELSE IF mut.kind = "rename_key"
    THEN RenameMetadataKey([a |-> NoFiles, d |-> NoFiles, m |-> map], "none", mut.from, mut.to).w.m
    ELSE RenameMetadataKeyInline(map, mut.from, mut.to)

\* load_metadata of a helper: the caller holds the map it read; alone says
\* that the other caller was not between its load and its save
LoadStep ==
    \E p \in Callers, mut \in MetaMutations :
        /\ last.call[p].pc = "start"
        /\ SetCall(p, [pc |-> "loaded", mut |-> mut, map |-> LoadMetadata(World, "none").map,
                       alone |-> \A q \in Callers \ {p} : last.call[q].pc # "loaded"])
        /\ UNCHANGED <<addons, disabled, meta, fresh, steps>>

\* save_metadata of a helper: the map it read, mutated, replaces the file
SaveStep ==
    \E p \in Callers :
        /\ last.call[p].pc = "loaded"
        /\ \E c \in {last.call[p]} :
               /\ meta' = IF Saves(c.mut, c.map)
                          THEN SaveMetadata(World, "none", Mutated(c.mut, c.map)).w.m
                          ELSE meta
               /\ SetCall(p, [c EXCEPT !.pc = "done"])
        /\ UNCHANGED <<addons, disabled, fresh, steps>>

MetaRaceNext ==
    \/ LoadStep
    \/ SaveStep

SpecMetaRace == MetaRaceInit /\ [][MetaRaceNext]_vars

\* the effect of a finished helper is in map M: the entry it upserted, or
\* the entry it found under from moved to the key to
EffectIn(c, M) ==
    IF c.mut.kind = "upsert"
    THEN c.mut.to \in DOMAIN M /\ M[c.mut.to] = c.mut.entry
    ELSE c.mut.from \in DOMAIN c.map
             => /\ c.mut.to \in DOMAIN M
                /\ M[c.mut.to] = c.map[c.mut.from]
                /\ c.mut.from \notin DOMAIN M

\* both helpers are done and they worked on different keys
BothDone ==
    /\ last.op = "meta_race"
    /\ \A p \in Callers : last.call[p].pc = "done"
    /\ {last.call[1].mut.from, last.call[1].mut.to}
           \cap {last.call[2].mut.from, last.call[2].mut.to} = {}

\* C32: when two mutating helpers on different keys run with their load and
\* save steps interleaved, the map persisted in the end holds the effect of
\* both.
MutationsAtomic ==
    BothDone => \A p \in Callers : EffectIn(last.call[p], meta)

\* an upsert and a rename_key overlapped; the entry of the upsert is not in
\* the persisted map
LostUpdateSeen ==
    /\ BothDone
    /\ last.call[1].mut.kind = "upsert" /\ last.call[1].mut.to = RED_VPK
    /\ last.call[2].mut.kind = "rename_key"
    /\ PakFileName(5) \in DOMAIN last.call[2].map
    /\ ~last.call[2].alone
    /\ RED_VPK \notin DOMAIN meta
    /\ EffectIn(last.call[2], meta)

\* Helpers that run one after the other leave the effect of both.
MutationsSerial ==
    (BothDone /\ \A p \in Callers : last.call[p].alone)
        => \A p \in Callers : EffectIn(last.call[p], meta)

\* ------------------------------------------------------------------------
\* Relocation and the number of package files
\* ------------------------------------------------------------------------

\* the commands that only move or rename package files
RelocateNext ==
    \/ Return
    \/ Enable
    \/ Disable
    \/ Reprioritize
    \/ SetPreset

SpecRelocate == Init /\ [][RelocateNext]_vars

\* the number of package files in the two directories together
PackageCount(W) == Cardinality(PackageFiles(W.a)) + Cardinality(PackageFiles(W.d))

Relocations == {"enable", "disable", "reprioritize", "set_mina_preset"}

\* C33: enable, disable, reprioritize and set_mina_preset never replace a
\* file of the same name in the destination directory: over any sequence of
\* them the two directories hold as many package files as before.
RelocationKeepsFiles ==
    last.op \in Relocations => PackageCount(World) = PackageCount(last.before)

\* after a reprioritize gave an enabled package the name of a disabled one,
\* the enable of the disabled package replaced it: one package file fewer
ReplacedByEnableSeen ==
    /\ last.op = "enable" /\ last.ok
    /\ HasMod(last.before, last.id)
    /\ FindMod(last.before, last.id).file_name \in PackageFiles(last.before.a)
    /\ FindMod(last.before, last.id).file_name \in PackageFiles(last.before.d)
    /\ PackageCount(World) = PackageCount(last.before) - 1

\* A failed command keeps every package file, and so does a successful
\* enable or disable whose file name the other directory did not hold.
RelocationKeepsFilesWhenFree ==
    /\ (last.op \in Relocations /\ ~last.ok /\ last.op # "set_mina_preset")
           => PackageCount(World) = PackageCount(last.before)
    /\ (last.op \in {"enable", "disable"} /\ last.ok
        /\ FindMod(last.before, last.id).file_name
               \notin DOMAIN last.before.a \cap DOMAIN last.before.d)
           => PackageCount(World) = PackageCount(last.before)

\* ------------------------------------------------------------------------
\* What a delete removes
\* ------------------------------------------------------------------------

\* Directories for the delete: any of a package with a part file, a package
\* whose name begins with the base name of the first, and a canonical one in
\* the active directory; any of two packages in the disabled directory
DeletePoolA == (X_1 :> File(1)) @@ (X_1_PART :> File(2)) @@ (X_10 :> File(3))
               @@ (PakFileName(5) :> File(4))

DeletePoolD == (X_10 :> File(5)) @@ (RED_VPK :> File(6))

Restrict(f, S) == [x \in S |-> f[x]]

DeleteInit ==
    /\ \E A \in SUBSET DOMAIN DeletePoolA : addons = Restrict(DeletePoolA, A)
    /\ \E B \in SUBSET DOMAIN DeletePoolD : disabled = Restrict(DeletePoolD, B)
    /\ meta = NoFiles
    /\ fresh = 0 /\ steps = 0 /\ last = Idle

DeleteNext ==
    \/ Delete
    \/ Return

SpecDelete == DeleteInit /\ [][DeleteNext]_vars

\* the primary files of the other packages in the directory of package t
OtherPrimaries(W, t) ==
    {n \in DOMAIN DirOf(W, t.path[1]) \ {t.file_name} :
         DirOf(W, t.path[1])[n].isFile /\ EndsWith(n, "_dir.vpk")}

\* the delete of package t left the primary file of every other package of
\* its directory and every entry of the other directory as they were in W
OthersKept(W, V, t) ==
    /\ \A n \in OtherPrimaries(W, t) :
           /\ n \in DOMAIN DirOf(V, t.path[1])
           /\ DirOf(V, t.path[1])[n] = DirOf(W, t.path[1])[n]
    /\ DirOf(V, OtherDir(t.path[1])) = DirOf(W, OtherDir(t.path[1]))

\* C34: delete(id) removes no file of another package: the primary file of
\* every other package, one whose name begins with the target's base name
\* included, and every file of the other directory are still there.
DeleteFrame ==
    (last.op = "delete" /\ HasMod(last.before, last.id))
        => OthersKept(last.before, World, FindMod(last.before, last.id))

\* the delete of x_1_dir.vpk removed x_10_dir.vpk as well
DeleteTookNeighbourSeen ==
    /\ last.op = "delete" /\ last.ok
    /\ last.id = GenerateModId(<<ADDONS, X_1>>)
    /\ X_10 \in DOMAIN last.before.a
    /\ X_10 \notin DOMAIN addons
    /\ X_1 \notin DOMAIN addons

\* What a delete removes is the target and entries of its directory whose
\* name starts with the target's base name and ends with .vpk; the other
\* directory is as it was.
DeleteFrameByPrefix ==
    (last.op = "delete" /\ HasMod(last.before, last.id))
        => \E t \in {FindMod(last.before, last.id)} :
               /\ DirOf(World, OtherDir(t.path[1])) = DirOf(last.before, OtherDir(t.path[1]))
               /\ \A n \in DOMAIN DirOf(last.before, t.path[1]) :
                      (n # t.file_name /\ n \notin Siblings(last.before, t))
                          => /\ n \in DOMAIN DirOf(World, t.path[1])
                             /\ DirOf(World, t.path[1])[n] = DirOf(last.before, t.path[1])[n]

\* ------------------------------------------------------------------------
\* The install of a downloaded file
\* ------------------------------------------------------------------------

\* the entry download_mod builds from the details of the downloaded mod
DownloadedEntry == Entry("Downloaded", 13)

\* the file download_file wrote into the active directory
DownloadedFile == File(80)

\* the names under which a download arrives: the archives and a bare package
DownloadNames == ArchivePaths \cup {RED_VPK}

\* the active directory holds any of two packages, each with an entry of
\* its own in the side-table
InstallInit ==
    /\ addons \in ExtractDests
    /\ disabled = NoFiles
    /\ meta = [n \in {x \in DOMAIN addons : addons[x].isFile} |-> Entry("Alpha", 11)]
    /\ fresh = 0 /\ steps = 0 /\ last = Idle

\* download_mod once r is the result of extract_archive: the error is
\* returned with the archive left where it was downloaded, or the archive is
\* removed and the returned paths get the entry (a failure of the side-table
\* is ignored)
InstalledArchive(W, fault, file_name, r) ==
    IF ~r.ok
    THEN Failed(r.err, [W EXCEPT !.a = MapPut(r.dest, file_name, DownloadedFile)])
    ELSE Succeeded(NoMod,
             UpsertMetadataForFiles([W EXCEPT !.a = r.dest], fault,
                                    {r.paths[i] : i \in 1..Len(r.paths)}, DownloadedEntry).w)

\* download_mod for a file that is no archive: the file itself gets the entry
InstalledFile(W, fault, file_name) ==
    Succeeded(NoMod,
        UpsertMetadataForFiles([W EXCEPT !.a = MapPut(@, file_name, DownloadedFile)], fault,
                               {file_name}, DownloadedEntry).w)

\* commands.rs download_mod after download_file has written file_name into
\* the active directory
Install ==
    /\ last = Idle /\ steps = 0 /\ steps' = 1
    /\ \E file_name \in DownloadNames, fault \in MetaFaults, archive \in Archives :
       \E stop \in StopsFor(file_name, archive), works \in WorksFor(file_name) :
       \E order \in Perms(WalkIndices(archive)) :
       \E scan \in Perms(ScannedVpks(Sevenz(addons, archive, stop).dest)) :
       \E r \in {IF IsArchiveName(file_name)
                 THEN InstalledArchive(World, fault, file_name,
                          ExtractArchive(file_name, addons, archive, stop, works, order, scan))
                 ELSE InstalledFile(World, fault, file_name)} :
           /\ Commit(r.w)
           /\ last' = [op |-> "install", before |-> World, fault |-> fault,
                       file_name |-> file_name, archive |-> archive, stop |-> stop,
                       ok |-> r.ok, err |-> r.err]
           /\ UNCHANGED fresh

InstallNext ==
    \/ Install
    \/ Return

SpecInstall == InstallInit /\ [][InstallNext]_vars

\* the files of the active directory of V that the install materialised:
\* they were not in W, or were there with another content
Materialised(W, V) ==
    {n \in DOMAIN V.a : V.a[n].isFile /\ (n \notin DOMAIN W.a \/ W.a[n] # V.a[n])}

\* the side-table entry of key k is in V what it was in W
SameEntry(W, V, k) ==
    IF k \in DOMAIN W.m THEN k \in DOMAIN V.m /\ V.m[k] = W.m[k] ELSE k \notin DOMAIN V.m

\* C35: after download_mod installed an archive or a bare package file, the
\* entries of the package files that were in the active directory before and
\* were not overwritten are unchanged; only keys of newly materialised files
\* got the new entry.
InstallFrame ==
    (last.op = "install" /\ last.ok)
        => \A k \in (DOMAIN last.before.m \cup DOMAIN meta \cup DOMAIN addons)
                        \ Materialised(last.before, World) :
               SameEntry(last.before, World, k)

\* the in-process 7z decoder wrote pak05_dir.vpk and the entry of
\* pak10_dir.vpk, which the archive does not hold, was replaced
InstallRelabelledSeen ==
    /\ last.op = "install" /\ last.ok
    /\ last.file_name = "mod.7Z"
    /\ last.stop = NoneV
    /\ PakFileName(10) \in DOMAIN last.before.a
    /\ addons[PakFileName(10)] = last.before.a[PakFileName(10)]
    /\ last.before.m[PakFileName(10)] = Entry("Alpha", 11)
    /\ meta[PakFileName(10)] = DownloadedEntry
    /\ PakFileName(5) \in Materialised(last.before, World)

\* With every format but the in-process 7z decoding, and for a bare package
\* file, only the materialised files get the entry.
InstallFrameOtherPaths ==
    (last.op = "install" /\ last.ok
     /\ (LowerExtension(last.file_name) = "7z" => last.stop # NoneV))
        => \A k \in (DOMAIN last.before.m \cup DOMAIN meta \cup DOMAIN addons)
                        \ Materialised(last.before, World) :
               SameEntry(last.before, World, k)

\* ------------------------------------------------------------------------
\* The normalizer and the recognition of the variant group
\* ------------------------------------------------------------------------

\* how collect_mina_files classes the entry n of directory dir of world W,
\* the side-table being the persisted one: "preset", "texture" or "none"
KindIn(W, dir, n) ==
    IF DirOf(W, dir)[n].isFile THEN CollectMinaKind(n, W.m) ELSE "none"

\* the file that was entry n of directory dir of W is in the same directory
\* of V, under a name that is classed as n was in W
StillRecognised(W, V, dir, n) ==
    \E x \in DOMAIN DirOf(V, dir) :
        /\ DirOf(V, dir)[x] = DirOf(W, dir)[n]
        /\ KindIn(V, dir, x) = KindIn(W, dir, n)

\* C36: every file recognised as a member of the variant group or as the
\* companion texture before a normalizer run is recognised as such after
\* the run, under its new name.
RecognitionKept ==
    (last.op = "cleanup" /\ last.ok)
        => \A dir \in {ADDONS, DISABLED} :
           \A n \in DOMAIN DirOf(last.before, dir) :
               KindIn(last.before, dir, n) # "none"
                   => StillRecognised(last.before, World, dir, n)

\* the sweep renamed clothing_preset_a.vpk, whose entry has no marker, to a
\* canonical name under which it is not recognised
RecognitionLostSeen ==
    /\ last.op = "cleanup" /\ last.ok /\ last.fault = "none"
    /\ PRESET_A \in DOMAIN last.before.a
    /\ KindIn(last.before, ADDONS, PRESET_A) = "preset"
    /\ PRESET_A \notin DOMAIN addons
    /\ \E x \in DOMAIN addons :
           /\ addons[x] = last.before.a[PRESET_A]
           /\ PakFile[x]
           /\ x \in DOMAIN meta
           /\ KindIn(World, ADDONS, x) = "none"

\* the sweep renamed the companion texture to pak21_dir.vpk, which is not
\* recognised as the texture
TextureRecognitionLostSeen ==
    /\ last.op = "cleanup" /\ last.ok
    /\ MINA_TEXTURES \in DOMAIN last.before.d
    /\ PakFileName(21) \in DOMAIN disabled
    /\ disabled[PakFileName(21)] = last.before.d[MINA_TEXTURES]
    /\ KindIn(World, DISABLED, PakFileName(21)) = "none"

\* With a working side-table, a recognised file that the sweep leaves under
\* its name stays recognised.
RecognitionKeptUnlessRenamed ==
    (last.op = "cleanup" /\ last.ok /\ last.fault = "none")
        => \A dir \in {ADDONS, DISABLED} :
           \A n \in DOMAIN DirOf(last.before, dir) \cap DOMAIN DirOf(World, dir) :
               (/\ KindIn(last.before, dir, n) # "none"
                /\ DirOf(World, dir)[n] = DirOf(last.before, dir)[n])
                   => KindIn(World, dir, n) = KindIn(last.before, dir, n)

\* ------------------------------------------------------------------------
\* The normalizer and the entries of the side-table
\* ------------------------------------------------------------------------

\* the names in world V of the file that was entry k of a directory of W
\* and has another name now
RenamedTo(W, V, k) ==
    UNION {{x \in DOMAIN DirOf(V, dir) \ {k} :
                k \in DOMAIN DirOf(W, dir) /\ DirOf(W, dir)[k].isFile
                /\ DirOf(V, dir)[x] = DirOf(W, dir)[k]} : dir \in {ADDONS, DISABLED}}

\* the entry that W persisted under key k is persisted in V, under k or
\* under the new name of the file k named
EntryKept(W, V, k) ==
    \/ k \in DOMAIN V.m /\ V.m[k] = W.m[k]
    \/ \E x \in RenamedTo(W, V, k) : x \in DOMAIN V.m /\ V.m[x] = W.m[k]

\* C37: after a normalizer run every entry the side-table persisted before
\* is still there, under its key or under the new name of its renamed file;
\* when the load at the start of the run fails the persisted side-table is
\* left as it was.
EntriesKept ==
    last.op = "cleanup"
        => /\ \A k \in DOMAIN last.before.m : EntryKept(last.before, World, k)
           /\ last.fault = "load" => meta = last.before.m

\* the load failed, the sweep went on with an empty map and saved it: the
\* entries are gone
EntriesDiscardedSeen ==
    /\ last.op = "cleanup" /\ last.ok
    /\ last.fault = "load"
    /\ PRESET_A \in DOMAIN last.before.m
    /\ meta = NoFiles

\* When the side-table was loaded, the entries of files are kept, under the
\* key or the new name of the file.
EntriesKeptWhenLoaded ==
    (last.op = "cleanup" /\ last.fault # "load")
        => \A k \in DOMAIN last.before.m :
               (\E dir \in {ADDONS, DISABLED} : PathIsFile(last.before, <<dir, k>>))
                   => EntryKept(last.before, World, k)

\* ------------------------------------------------------------------------
\* The record a reprioritize returns
\* ------------------------------------------------------------------------

\* the record names a file of world V that is called pak<NN>_dir.vpk, NN in
\* 0..99, and its priority is NN, the priority a scan of V gives that file
ConsistentWithName(V, m) ==
    /\ PathIsFile(V, m.path)
    /\ m.path[2] = m.file_name
    /\ \E nn \in 0..99 : m.file_name = PakFileName(nn) /\ m.priority = nn
    /\ \E n \in ScanSet(V) : n.path = m.path /\ n.priority = m.priority

\* C38: for every requested priority, values above 99 included, a
\* successful reprioritize leaves the file named pak<NN>_dir.vpk with NN in
\* 0..99, and the priority of the returned record is NN, the priority a
\* following scan reports for the file.
ReprioritizeConsistent ==
    (last.op = "reprioritize" /\ last.ok) => ConsistentWithName(World, last.ret)

\* priority 150 was requested: the file is pak99_dir.vpk and the returned
\* record says 150
ClampedPrioritySeen ==
    /\ last.op = "reprioritize" /\ last.ok
    /\ last.arg = 150
    /\ last.ret.file_name = PakFileName(99)
    /\ PathIsFile(World, last.ret.path)
    /\ last.ret.priority = 150

\* For requests within 0..99 the record is consistent with the name, and for
\* every request the file is named after min(request, 99).
ReprioritizeConsistentInRange ==
    (last.op = "reprioritize" /\ last.ok)
        => /\ PathIsFile(World, last.ret.path)
           /\ last.ret.file_name = PakFileName(IF last.arg > 99 THEN 99 ELSE last.arg)
           /\ last.arg <= 99 => ConsistentWithName(World, last.ret)

\* ------------------------------------------------------------------------
\* The side-table entry of a reprioritized package
\* ------------------------------------------------------------------------

\* the entry persisted in V under the name new is the entry W persisted
\* under the name old; there is none under new when there was none under old
EntryFollowed(W, V, old, new) ==
    IF old \in DOMAIN W.m
    THEN new \in DOMAIN V.m /\ V.m[new] = W.m[old]
    ELSE new \notin DOMAIN V.m

\* C39: after a successful reprioritize the entry under the package's new
\* file name is the entry it had under the old one, and a package without an
\* entry still has none: it does not take over an entry left under the
\* target name by an earlier operation.
MetadataFollows ==
    (last.op = "reprioritize" /\ last.ok)
        => EntryFollowed(last.before, World, FindMod(last.before, last.id).file_name,
                         last.ret.file_name)

\* pak10_dir.vpk, which has no entry, was renamed to pak99_dir.vpk, under
\* which the entry of a removed package was left: the package has that entry
\* now and the returned record shows it
DanglingEntryTakenSeen ==
    /\ last.op = "reprioritize" /\ last.ok /\ last.fault = "none"
    /\ FindMod(last.before, last.id).file_name = PakFileName(10)
    /\ PakFileName(10) \notin DOMAIN last.before.m
    /\ PakFileName(99) \in DOMAIN last.before.m
    /\ PakFileName(99) \notin DOMAIN last.before.a
    /\ last.ret.file_name = PakFileName(99)
    /\ meta[PakFileName(99)] = last.before.m[PakFileName(99)]
    /\ last.ret.name = meta[PakFileName(99)].name

\* With a working side-table, the entry of a package that has one follows it
\* to the new name.
MetadataFollowsExisting ==
    (last.op = "reprioritize" /\ last.ok /\ last.fault = "none"
     /\ FindMod(last.before, last.id).file_name \in DOMAIN last.before.m)
        => EntryFollowed(last.before, World, FindMod(last.before, last.id).file_name,
                         last.ret.file_name)

\* ------------------------------------------------------------------------
\* Packages of several files
\* ------------------------------------------------------------------------

\* The package of two files that the runs start with: pak21_dir.vpk and its
\* part file pak21_000.vpk, told by their contents wherever they are
PrimaryOfSet == File(22)

PartOfSet == File(26)

\* the places <<dir, name>> of world W that hold the file f
PlacesOf(W, f) ==
    {path \in {ADDONS, DISABLED} \X (DOMAIN W.a \cup DOMAIN W.d) :
         path[2] \in DOMAIN DirOf(W, path[1]) /\ DirOf(W, path[1])[path[2]] = f}

\* the part file at place q is a sibling of the primary file at place p: the
\* same directory, the base name of the primary as prefix, the suffix .vpk
SiblingAt(p, q) ==
    /\ q[1] = p[1]
    /\ StartsWith(q[2], TrimEndMatches(p[2], "_dir.vpk"))
    /\ EndsWith(q[2], ".vpk")

\* C40: after any sequence of enable, disable and reprioritize on a package
\* with part files, the part files are in the directory of the primary file
\* and have its base name.
SetStaysTogether ==
    \A p \in PlacesOf(World, PrimaryOfSet) :
        PlacesOf(World, PartOfSet) # {}
        /\ \A q \in PlacesOf(World, PartOfSet) : SiblingAt(p, q)

\* the disable of pak21_dir.vpk moved the primary file and left the part
\* file in the active directory
SetSplitSeen ==
    /\ last.op = "disable" /\ last.ok
    /\ last.id = GenerateModId(<<ADDONS, PakFileName(21)>>)
    /\ PlacesOf(last.before, PrimaryOfSet) = {<<ADDONS, PakFileName(21)>>}
    /\ PlacesOf(last.before, PartOfSet) = {<<ADDONS, SIBLING_21>>}
    /\ PlacesOf(World, PrimaryOfSet) = {<<DISABLED, PakFileName(21)>>}
    /\ PlacesOf(World, PartOfSet) = {<<ADDONS, SIBLING_21>>}

\* the reprioritize of pak21_dir.vpk renamed the primary file and left the
\* part file under the old base name
SetRenamedApartSeen ==
    /\ last.op = "reprioritize" /\ last.ok
    /\ last.id = GenerateModId(<<ADDONS, PakFileName(21)>>)
    /\ PlacesOf(World, PrimaryOfSet) = {<<ADDONS, PakFileName(7)>>}
    /\ PlacesOf(World, PartOfSet) = {<<ADDONS, SIBLING_21>>}

\* A command aimed at the primary file moves that file alone: the part file
\* is where it was.
PartFileStays ==
    (last.op \in {"enable", "disable", "reprioritize"}
     /\ HasMod(last.before, last.id)
     /\ FindMod(last.before, last.id).path \in PlacesOf(last.before, PrimaryOfSet))
        => PlacesOf(World, PartOfSet) = PlacesOf(last.before, PartOfSet)

====
